---- MODULE Spec2Model ----
(***************************************************************************)
(* A model of the RIOT CBOR codec (sys/cbor/cbor.c): the stream            *)
(* {data, size, pos}, the head codec encode_int / decode_int, the typed    *)
(* serialize / deserialize operations and the stream life cycle.           *)
(*                                                                         *)
(* Numbers.  TLC integers are 32 bit wide, so a uint64_t / int64_t is the  *)
(* sequence of its eight bytes, most significant first (two's complement   *)
(* for int64_t); a C int is a TLC integer in -2^31 .. 2^31-1; a float is   *)
(* the four bytes and a double the eight bytes of its IEEE-754 pattern,    *)
(* most significant first.  The host is little-endian (BOARD_NATIVE).      *)
(***************************************************************************)
EXTENDS Integers, Sequences, FiniteSets, TLC

VARIABLES stream, mem, call, phase, item, log, walk

vars == <<stream, mem, call, phase, item, log, walk>>

-----------------------------------------------------------------------------
(* Bounds of the model *)

\* largest buffer handed to cbor_init in the life-cycle specification Spec
MaxCap == 3
\* largest buffer of the single-item harness specification SpecRT
MaxSize == 11
\* largest destination buffer handed to a string deserialize
MaxDst == 4
\* length of the received buffers of the specification SpecRaw
MaxRaw == 9
\* the longest received content the walker is run on
MaxLen == 3
\* the most items written into a container of the specification SpecSeq
MaxItems == 4

-----------------------------------------------------------------------------
(* Protocol constants, cbor.c:24-71 *)

CBOR_TYPE_MASK == 224
CBOR_INFO_MASK == 31
CBOR_UINT == 0
CBOR_NEGINT == 32
CBOR_BYTES == 64
CBOR_TEXT == 96
CBOR_ARRAY == 128
CBOR_MAP == 160
CBOR_TAG == 192
CBOR_7 == 224
CBOR_UINT8_FOLLOWS == 24
CBOR_UINT16_FOLLOWS == 25
CBOR_UINT32_FOLLOWS == 26
CBOR_UINT64_FOLLOWS == 27
CBOR_VAR_FOLLOWS == 31
CBOR_FALSE == CBOR_7 + 20
CBOR_TRUE == CBOR_7 + 21
CBOR_NULL == CBOR_7 + 22
CBOR_UNDEFINED == CBOR_7 + 23
CBOR_FLOAT16 == CBOR_7 + 25
CBOR_FLOAT32 == CBOR_7 + 26
CBOR_FLOAT64 == CBOR_7 + 27
CBOR_BREAK == CBOR_7 + 31
CBOR_DATETIME_STRING_FOLLOWS == 0
CBOR_DATETIME_EPOCH_FOLLOWS == 1

\* the null pointer, and the address of the caller's buffer
NULL == 0
BUF == 1

Byte == 0..255

-----------------------------------------------------------------------------
(* 64-bit arithmetic on eight big-endian bytes *)

\* the uint64_t with value n, for 0 <= n < 2^31 (an integer conversion)
U64(n) ==
    << 0, 0, 0, 0,
       (n \div 16777216) % 256, (n \div 65536) % 256, (n \div 256) % 256, n % 256 >>

RECURSIVE LeFrom(_, _, _)
\* a <= b as unsigned numbers, comparing the digits from index i on
LeFrom(a, b, i) ==
    IF i > Len(a) THEN TRUE
    ELSE IF a[i] < b[i] THEN TRUE
    ELSE IF a[i] > b[i] THEN FALSE
    ELSE LeFrom(a, b, i + 1)

\* val <= bound, both uint64_t
U64Le(a, b) == LeFrom(a, b, 1)

RECURSIVE BorrowInto(_, _, _)
\* the borrow into digit i (1 = most significant) of the subtraction a - b
BorrowInto(a, b, i) ==
    IF i = Len(a) THEN 0
    ELSE IF a[i + 1] - b[i + 1] - BorrowInto(a, b, i + 1) < 0 THEN 1 ELSE 0

\* a - b modulo 2^64, as the C unsigned (or non-overflowing signed) subtraction
Sub64(a, b) ==
    [i \in 1..Len(a) |-> (a[i] - b[i] - BorrowInto(a, b, i) + 256) % 256]

RECURSIVE CarryInto(_, _, _)
\* the carry into digit i of the addition a + b
CarryInto(a, b, i) ==
    IF i = Len(a) THEN 0
    ELSE IF a[i + 1] + b[i + 1] + CarryInto(a, b, i + 1) > 255 THEN 1 ELSE 0

\* a + b modulo 2^64
Add64(a, b) ==
    [i \in 1..Len(a) |-> (a[i] + b[i] + CarryInto(a, b, i)) % 256]

\* (val >> shift) & 0xff for shift in {0, 8, .., 56}
ShrByte(val, shift) == val[8 - (shift \div 8)]

\* -1 as int64_t / the all-ones uint64_t
MinusOne64 == << 255, 255, 255, 255, 255, 255, 255, 255 >>

\* val < 0 for an int64_t
IsNeg64(val) == val[1] >= 128

\* the int64_t (sign extended) of a C int
I64OfInt(v) ==
    IF v >= 0 THEN U64(v)
    ELSE Sub64(MinusOne64, U64(-1 - v))

\* the C int a uint64_t converts to: its low 32 bits read as two's complement
IntOfU64(val) ==
    ((IF val[5] >= 128 THEN val[5] - 256 ELSE val[5]) * 16777216)
        + val[6] * 65536 + val[7] * 256 + val[8]


RECURSIVE BitOr(_, _)
\* a | b on naturals
BitOr(a, b) ==
    IF a = 0 THEN b
    ELSE IF b = 0 THEN a
    ELSE (IF a % 2 = 1 \/ b % 2 = 1 THEN 1 ELSE 0) + 2 * BitOr(a \div 2, b \div 2)

\* byte & CBOR_TYPE_MASK: the major type bits of an initial byte
TypeBits(b) == (b \div 32) * 32

\* byte & CBOR_INFO_MASK: the additional information of an initial byte
InfoBits(b) == b % 32

Reverse(q) == [i \in 1..Len(q) |-> q[Len(q) + 1 - i]]

-----------------------------------------------------------------------------
(* Host byte order helpers (net_help.h) on a little-endian host; a 16/32/64  *)
(* bit value is its big-endian digit sequence                                *)

HTONS(x) == Reverse(x)
HTONL(x) == Reverse(x)
NTOHL(x) == Reverse(x)

\* (((uint64_t)HTONL(x)) << 32) + HTONL(x >> 32)
htonll(x) == HTONL(SubSeq(x, 5, 8)) \o HTONL(SubSeq(x, 1, 4))

\* (((uint64_t)NTOHL(x)) << 32) + NTOHL(x >> 32)
ntohll(x) == NTOHL(SubSeq(x, 5, 8)) \o NTOHL(SubSeq(x, 1, 4))

\* the bytes of a value as they lie in memory (memcpy source), lowest first
MemImage(x) == Reverse(x)

\* the value whose memory image is the byte sequence q (a pointer-cast load)
Load(q) == Reverse(q)

htonf(x) == HTONL(x)
ntohf(x) == NTOHL(x)
htond(x) == htonll(x)
ntohd(x) == ntohll(x)

-----------------------------------------------------------------------------
(* Half floats *)

\* the biased exponent and the 23-bit mantissa of a float bit pattern
FloatExp(f) == (f[1] % 128) * 2 + (f[2] \div 128)
FloatMant(f) == (f[2] % 128) * 65536 + f[3] * 256 + f[4]

RECURSIVE Pow2(_)
Pow2(n) == IF n = 0 THEN 1 ELSE 2 * Pow2(n - 1)

\* x >> n
Shr(x, n) == x \div Pow2(n)

\* a half encoder that carries the payload of a NaN over
encode_float_half_payload(x) ==
    LET bits == (x[1] \div 128) * 32768
        e    == FloatExp(x)
    IN  IF e < 103 THEN bits
        ELSE BitOr(BitOr(bits, 31744),
                   IF e = 255 THEN Shr(FloatMant(x), 13) ELSE 0)

\* encode_float_half: the 16-bit half pattern (a number) of the float x
encode_float_half(x) ==
    LET bits == (x[1] \div 128) * 32768
        m    == Shr(FloatMant(x), 12)
        e    == FloatExp(x)
    IN  IF e < 103 THEN bits
        ELSE IF e > 142
            THEN BitOr(BitOr(bits, 31744),
                       IF e = 255 /\ FloatMant(x) # 0 THEN 1 ELSE 0)
        ELSE IF e < 113
            THEN LET m2 == BitOr(m, 2048)
                 IN  BitOr(bits, Shr(m2, 114 - e) + (Shr(m2, 113 - e) % 2))
        ELSE (BitOr(bits, BitOr((e - 112) * 1024, Shr(m, 1))) + (m % 2)) % 65536

\* decode_float_half: the value of the half at halfp[0], halfp[1], as the
\* exact dyadic mant * 2^exp with its sign, or an infinity, or a NaN
decode_float_half(hp0, hp1) ==
    LET half == hp0 * 256 + hp1
        exp  == (half \div 1024) % 32
        mant == half % 1024
        neg  == (half \div 32768) % 2 = 1
    IN  IF exp = 0 THEN [kind |-> "finite", neg |-> neg, mant |-> mant, exp |-> -24]
        ELSE IF exp # 31
            THEN [kind |-> "finite", neg |-> neg, mant |-> mant + 1024, exp |-> exp - 25]
        ELSE [kind |-> IF mant = 0 THEN "inf" ELSE "nan", neg |-> neg,
              mant |-> 0, exp |-> 0]

-----------------------------------------------------------------------------
(* The stream: stream = [data, size, pos], mem = the bytes of the buffer   *)
(* stream.data points to (C index i is mem[i + 1]).  A serialize works on  *)
(* r = [stream, mem, ret, wr]: wr collects the C indices it stores to.     *)

Begin(s, m) == [stream |-> s, mem |-> m, ret |-> 0, wr |-> {}]

\* return n
Return(r, n) == [r EXCEPT !.ret = n]

\* a reserve check that lets a write end one byte behind the buffer
CBOR_ENSURE_SIZE_lax(s, bytes) == s.pos + bytes > s.size + 1

\* CBOR_ENSURE_SIZE(stream, bytes): TRUE iff the macro takes its "return 0"
CBOR_ENSURE_SIZE(s, bytes) == s.pos + bytes >= s.size

\* s->data[s->pos++] = b
Put(r, b) ==
    [r EXCEPT !.mem = IF r.stream.pos < Len(r.mem)
                          THEN [r.mem EXCEPT ![r.stream.pos + 1] = b]
                          ELSE r.mem,
              !.wr = r.wr \cup {r.stream.pos},
              !.stream.pos = r.stream.pos + 1]

RECURSIVE PutAll(_, _, _)
\* memcpy(&s->data[s->pos], q, n); s->pos += n
PutAll(r, q, n) ==
    IF n = 0 THEN r
    ELSE PutAll(Put(r, Head(q)), Tail(q), n - 1)

\* encode_int(major_type, s, val)
encode_int(major_type, r, val) ==
    IF U64Le(val, U64(23)) THEN
        IF CBOR_ENSURE_SIZE(r.stream, 1) THEN Return(r, 0)
        ELSE Return(Put(r, BitOr(major_type, ShrByte(val, 0))), 1)
    ELSE IF U64Le(val, U64(255)) THEN
        IF CBOR_ENSURE_SIZE(r.stream, 2) THEN Return(r, 0)
        ELSE Return(Put(Put(r, BitOr(major_type, CBOR_UINT8_FOLLOWS)),
                        ShrByte(val, 0)), 2)
    ELSE IF U64Le(val, U64(65535)) THEN
        IF CBOR_ENSURE_SIZE(r.stream, 3) THEN Return(r, 0)
        ELSE Return(PutAll(Put(r, BitOr(major_type, CBOR_UINT16_FOLLOWS)),
                           << ShrByte(val, 8), ShrByte(val, 0) >>, 2), 3)
    ELSE IF U64Le(val, << 0, 0, 0, 0, 255, 255, 255, 255 >>) THEN
        IF CBOR_ENSURE_SIZE(r.stream, 5) THEN Return(r, 0)
        ELSE Return(PutAll(Put(r, BitOr(major_type, CBOR_UINT32_FOLLOWS)),
                           << ShrByte(val, 24), ShrByte(val, 16),
                              ShrByte(val, 8), ShrByte(val, 0) >>, 4), 5)
    ELSE
        IF CBOR_ENSURE_SIZE(r.stream, 9) THEN Return(r, 0)
        ELSE Return(PutAll(Put(r, BitOr(major_type, CBOR_UINT64_FOLLOWS)),
                           << ShrByte(val, 56), ShrByte(val, 48),
                              ShrByte(val, 40), ShrByte(val, 32),
                              ShrByte(val, 24), ShrByte(val, 16),
                              ShrByte(val, 8), ShrByte(val, 0) >>, 8), 9)

\* encode_bytes(major_type, s, data, length)
encode_bytes(major_type, r, q, length) ==
    LET h == encode_int(major_type, r, U64(length))
    IN  IF h.ret = 0 THEN Return(h, 0)
        ELSE IF CBOR_ENSURE_SIZE(h.stream, length) THEN Return(h, 0)
        ELSE Return(PutAll(h, q, length), h.ret + length)

\* strlen(val) of a zero-free byte sequence
strlen(q) == Len(q)

cbor_serialize_int(r, val) ==
    IF val >= 0 THEN encode_int(CBOR_UINT, r, U64(val))
    ELSE encode_int(CBOR_NEGINT, r, U64(-1 - val))

cbor_serialize_uint64_t(r, val) == encode_int(CBOR_UINT, r, val)

\* a serialize of an int64_t that takes -val for the argument of a negative val
cbor_serialize_int64_t_negated(r, val) ==
    IF ~IsNeg64(val) THEN encode_int(CBOR_UINT, r, val)
    ELSE encode_int(CBOR_NEGINT, r, Sub64(U64(0), val))

cbor_serialize_int64_t(r, val) ==
    IF ~IsNeg64(val) THEN encode_int(CBOR_UINT, r, val)
    ELSE encode_int(CBOR_NEGINT, r, Sub64(MinusOne64, val))

\* a serialize of a bool that writes without the reserve check
cbor_serialize_bool_unchecked(r, val) ==
    Return(Put(r, IF val THEN CBOR_TRUE ELSE CBOR_FALSE), 1)

cbor_serialize_bool(r, val) ==
    IF CBOR_ENSURE_SIZE(r.stream, 1) THEN Return(r, 0)
    ELSE Return(Put(r, IF val THEN CBOR_TRUE ELSE CBOR_FALSE), 1)

cbor_serialize_float_half(r, val) ==
    IF CBOR_ENSURE_SIZE(r.stream, 3) THEN Return(r, 0)
    ELSE LET h == encode_float_half(val)
             encoded_val == HTONS(<< h \div 256, h % 256 >>)
         IN  Return(PutAll(Put(r, CBOR_FLOAT16), MemImage(encoded_val), 2), 3)

cbor_serialize_float(r, val) ==
    IF CBOR_ENSURE_SIZE(r.stream, 5) THEN Return(r, 0)
    ELSE Return(PutAll(Put(r, CBOR_FLOAT32), MemImage(htonf(val)), 4), 5)

cbor_serialize_double(r, val) ==
    IF CBOR_ENSURE_SIZE(r.stream, 9) THEN Return(r, 0)
    ELSE Return(PutAll(Put(r, CBOR_FLOAT64), MemImage(htond(val)), 8), 9)

cbor_serialize_byte_string(r, val) == encode_bytes(CBOR_BYTES, r, val, strlen(val))

cbor_serialize_unicode_string(r, val) == encode_bytes(CBOR_TEXT, r, val, strlen(val))

cbor_serialize_array(r, array_length) == encode_int(CBOR_ARRAY, r, U64(array_length))

cbor_serialize_map(r, map_length) == encode_int(CBOR_MAP, r, U64(map_length))

cbor_serialize_indefinite_array(r) ==
    IF CBOR_ENSURE_SIZE(r.stream, 1) THEN Return(r, 0)
    ELSE Return(Put(r, BitOr(CBOR_ARRAY, CBOR_VAR_FOLLOWS)), 1)

cbor_serialize_indefinite_map(r) ==
    IF CBOR_ENSURE_SIZE(r.stream, 1) THEN Return(r, 0)
    ELSE Return(Put(r, BitOr(CBOR_MAP, CBOR_VAR_FOLLOWS)), 1)

\* the store truncates CBOR_TAG | tag to an unsigned char
cbor_write_tag(r, tag) ==
    IF CBOR_ENSURE_SIZE(r.stream, 1) THEN Return(r, 0)
    ELSE Return(Put(r, BitOr(CBOR_TAG, tag) % 256), 1)

cbor_write_break(r) ==
    IF CBOR_ENSURE_SIZE(r.stream, 1) THEN Return(r, 0)
    ELSE Return(Put(r, CBOR_BREAK), 1)

\* val is a time_t, 32 bits wide on the native board
cbor_serialize_date_time_epoch(r, val) ==
    IF CBOR_ENSURE_SIZE(r.stream, 2) THEN Return(r, 0)
    ELSE IF val < 0 THEN Return(r, 0)
    ELSE LET tagged == cbor_write_tag(r, CBOR_DATETIME_EPOCH_FOLLOWS)
         IN  IF tagged.ret = 0 THEN Return(tagged, 0)
             ELSE LET written == encode_int(CBOR_UINT, tagged, U64(val))
                  IN  Return(written, written.ret + 1)

-----------------------------------------------------------------------------
(* Deserializing.  d is the memory readable through stream->data: the      *)
(* buffer followed by whatever lies behind it.  A deserialize yields       *)
(* [ret, out, rd, dstw]: out is the caller's out value after the call (out0 *)
(* before it), rd the C indices of d it reads, dstw the indices of the     *)
(* destination it stores to.                                               *)

\* stream->data[i]
At(d, i) == d[i + 1]

\* CBOR_TYPE(stream, offset)
CBOR_TYPE(d, offset) == TypeBits(At(d, offset))

\* CBOR_ADDITIONAL_INFO(stream, offset)
CBOR_ADDITIONAL_INFO(d, offset) == InfoBits(At(d, offset))

\* a head decoder that shifts the follow bytes as ints: a set top bit of a
\* four or eight byte argument is extended into the upper half
decode_int_sign_extending(d, offset) ==
    LET additional_info == CBOR_ADDITIONAL_INFO(d, offset)
        data(i) == At(d, offset + i)
        ext(b) == IF b >= 128 THEN 255 ELSE 0
    IN  IF additional_info <= 23 THEN
            [ret |-> 1, val |-> U64(InfoBits(data(0))), rd |-> {offset}]
        ELSE IF additional_info = CBOR_UINT8_FOLLOWS THEN
            [ret |-> 2, val |-> U64(data(1)), rd |-> offset..(offset + 1)]
        ELSE IF additional_info = CBOR_UINT16_FOLLOWS THEN
            [ret |-> 3, val |-> U64(BitOr(data(1) * 256, data(2))),
             rd |-> offset..(offset + 2)]
        ELSE IF additional_info = CBOR_UINT32_FOLLOWS THEN
            [ret |-> 5, val |-> << ext(data(1)), ext(data(1)), ext(data(1)),
                                   ext(data(1)), data(1), data(2), data(3), data(4) >>,
             rd |-> offset..(offset + 4)]
        ELSE IF additional_info = CBOR_UINT64_FOLLOWS THEN
            [ret |-> 9, val |-> << BitOr(data(1), ext(data(5))),
                                   BitOr(data(2), ext(data(5))),
                                   BitOr(data(3), ext(data(5))),
                                   BitOr(data(4), ext(data(5))),
                                   data(5), data(6), data(7), data(8) >>,
             rd |-> offset..(offset + 8)]
        ELSE [ret |-> 0, val |-> U64(0), rd |-> {offset}]

\* decode_int(s, offset, val): [ret, val, rd]
decode_int(d, offset) ==
    LET additional_info == CBOR_ADDITIONAL_INFO(d, offset)
        data(i) == At(d, offset + i)
    IN  IF additional_info <= 23 THEN
            [ret |-> 1, val |-> U64(InfoBits(data(0))), rd |-> {offset}]
        ELSE IF additional_info = CBOR_UINT8_FOLLOWS THEN
            [ret |-> 2, val |-> U64(data(1)), rd |-> offset..(offset + 1)]
        ELSE IF additional_info = CBOR_UINT16_FOLLOWS THEN
            [ret |-> 3, val |-> U64(BitOr(data(1) * 256, data(2))),
             rd |-> offset..(offset + 2)]
        ELSE IF additional_info = CBOR_UINT32_FOLLOWS THEN
            [ret |-> 5, val |-> << 0, 0, 0, 0, data(1), data(2), data(3), data(4) >>,
             rd |-> offset..(offset + 4)]
        ELSE IF additional_info = CBOR_UINT64_FOLLOWS THEN
            [ret |-> 9, val |-> << data(1), data(2), data(3), data(4),
                                   data(5), data(6), data(7), data(8) >>,
             rd |-> offset..(offset + 8)]
        ELSE [ret |-> 0, val |-> U64(0), rd |-> {offset}]

\* a deserialize that returns 0 before it stores anything
Untouched(out0, rd) == [ret |-> 0, out |-> out0, rd |-> rd, dstw |-> {}]

\* dst[i] = b for the destination dst of dst_cap = Len(dst) bytes
Store(res, i, b) ==
    [res EXCEPT !.out = IF i < Len(res.out) THEN [res.out EXCEPT ![i + 1] = b]
                        ELSE res.out,
                !.dstw = res.dstw \cup {i}]

RECURSIVE memcpy(_, _, _, _, _)
\* memcpy(out, &s->data[from], n), the k first bytes being copied already
memcpy(res, d, from, n, k) ==
    IF k = n THEN res
    ELSE memcpy(Store([res EXCEPT !.rd = res.rd \cup {from + k}], k, At(d, from + k)),
                d, from, n, k + 1)

\* decode_bytes: the test that makes it return 0, length + 1 < bytes_length
DecodeBoundFails(length, bytes_length) == ~U64Le(bytes_length, U64(length + 1))

\* a decode_bytes that copies the payload and leaves the terminator out
decode_bytes_unterminated(d, offset, out0, length) ==
    IF CBOR_TYPE(d, offset) # CBOR_BYTES /\ CBOR_TYPE(d, offset) # CBOR_TEXT
    THEN Untouched(out0, {offset})
    ELSE LET di == decode_int(d, offset)
         IN  IF di.ret = 0 THEN Untouched(out0, di.rd)
             ELSE IF DecodeBoundFails(length, di.val) THEN Untouched(out0, di.rd)
             ELSE LET bytes_length == IntOfU64(di.val)
                      copied == memcpy([ret |-> 0, out |-> out0, rd |-> di.rd,
                                        dstw |-> {}],
                                       d, offset + di.ret, bytes_length, 0)
                  IN  [copied EXCEPT !.ret = di.ret + bytes_length]

\* decode_bytes(s, offset, out, length)
decode_bytes(d, offset, out0, length) ==
    IF CBOR_TYPE(d, offset) # CBOR_BYTES /\ CBOR_TYPE(d, offset) # CBOR_TEXT
    THEN Untouched(out0, {offset})
    ELSE LET di == decode_int(d, offset)
         IN  IF di.ret = 0 THEN Untouched(out0, di.rd)
             ELSE IF DecodeBoundFails(length, di.val) THEN Untouched(out0, di.rd)
             ELSE LET bytes_length == IntOfU64(di.val)
                      copied == memcpy([ret |-> 0, out |-> out0, rd |-> di.rd,
                                        dstw |-> {}],
                                       d, offset + di.ret, bytes_length, 0)
                  IN  [Store(copied, bytes_length, 0)
                          EXCEPT !.ret = di.ret + bytes_length]

\* a deserialize of an int that resolves a negative integer as -buf
cbor_deserialize_int_negated(d, offset, out0) ==
    IF CBOR_TYPE(d, offset) # CBOR_UINT /\ CBOR_TYPE(d, offset) # CBOR_NEGINT
    THEN Untouched(out0, {offset})
    ELSE LET di == decode_int(d, offset)
         IN  [ret |-> di.ret,
              out |-> IF CBOR_TYPE(d, offset) = CBOR_UINT
                      THEN IntOfU64(di.val)
                      ELSE IntOfU64(Sub64(U64(0), di.val)),
              rd |-> di.rd, dstw |-> {}]

cbor_deserialize_int(d, offset, out0) ==
    IF CBOR_TYPE(d, offset) # CBOR_UINT /\ CBOR_TYPE(d, offset) # CBOR_NEGINT
    THEN Untouched(out0, {offset})
    ELSE LET di == decode_int(d, offset)
         IN  [ret |-> di.ret,
              out |-> IF CBOR_TYPE(d, offset) = CBOR_UINT
                      THEN IntOfU64(di.val)
                      ELSE IntOfU64(Sub64(MinusOne64, di.val)),
              rd |-> di.rd, dstw |-> {}]

cbor_deserialize_uint64_t(d, offset, out0) ==
    IF CBOR_TYPE(d, offset) # CBOR_UINT THEN Untouched(out0, {offset})
    ELSE LET di == decode_int(d, offset)
         IN  [ret |-> di.ret, out |-> di.val, rd |-> di.rd, dstw |-> {}]

cbor_deserialize_int64_t(d, offset, out0) ==
    IF CBOR_TYPE(d, offset) # CBOR_UINT /\ CBOR_TYPE(d, offset) # CBOR_NEGINT
    THEN Untouched(out0, {offset})
    ELSE LET di == decode_int(d, offset)
         IN  [ret |-> di.ret,
              out |-> IF CBOR_TYPE(d, offset) = CBOR_UINT
                      THEN di.val
                      ELSE Sub64(MinusOne64, di.val),
              rd |-> di.rd, dstw |-> {}]

\* a bool deserialize that takes the two bool bytes only
cbor_deserialize_bool_strict(d, offset, out0) ==
    IF At(d, offset) \notin { CBOR_FALSE, CBOR_TRUE } THEN Untouched(out0, {offset})
    ELSE [ret |-> 1, out |-> (At(d, offset) = CBOR_TRUE), rd |-> {offset},
          dstw |-> {}]

cbor_deserialize_bool(d, offset, out0) ==
    IF CBOR_TYPE(d, offset) # CBOR_7 THEN Untouched(out0, {offset})
    ELSE [ret |-> 1, out |-> (At(d, offset) = CBOR_TRUE), rd |-> {offset},
          dstw |-> {}]

cbor_deserialize_float_half(d, offset, out0) ==
    IF CBOR_TYPE(d, offset) # CBOR_7 THEN Untouched(out0, {offset})
    ELSE IF At(d, offset) = CBOR_FLOAT16
        THEN [ret |-> 3,
              out |-> decode_float_half(At(d, offset + 1), At(d, offset + 2)),
              rd |-> offset..(offset + 2), dstw |-> {}]
    ELSE Untouched(out0, {offset})

cbor_deserialize_float(d, offset, out0) ==
    IF CBOR_TYPE(d, offset) # CBOR_7 THEN Untouched(out0, {offset})
    ELSE IF At(d, offset) = CBOR_FLOAT32
        THEN [ret |-> 4,
              out |-> ntohf(Load([i \in 1..4 |-> At(d, offset + i)])),
              rd |-> offset..(offset + 4), dstw |-> {}]
    ELSE Untouched(out0, {offset})

cbor_deserialize_double(d, offset, out0) ==
    IF CBOR_TYPE(d, offset) # CBOR_7 THEN Untouched(out0, {offset})
    ELSE IF At(d, offset) = CBOR_FLOAT64
        THEN [ret |-> 9,
              out |-> ntohd(Load([i \in 1..8 |-> At(d, offset + i)])),
              rd |-> offset..(offset + 8), dstw |-> {}]
    ELSE Untouched(out0, {offset})

\* a deserialize of a byte string that takes a text string as well
cbor_deserialize_byte_string_untyped(d, offset, out0, length) ==
    decode_bytes(d, offset, out0, length)

cbor_deserialize_byte_string(d, offset, out0, length) ==
    IF CBOR_TYPE(d, offset) # CBOR_BYTES THEN Untouched(out0, {offset})
    ELSE decode_bytes(d, offset, out0, length)

cbor_deserialize_unicode_string(d, offset, out0, length) ==
    IF CBOR_TYPE(d, offset) # CBOR_TEXT THEN Untouched(out0, {offset})
    ELSE decode_bytes(d, offset, out0, length)

\* (size_t)val for the 32-bit size_t of the native and the ARM boards
SizeT(val) == << 0, 0, 0, 0 >> \o SubSeq(val, 5, 8)

\* an array deserialize that takes the head for one byte
cbor_deserialize_array_short(d, offset, out0) ==
    IF CBOR_TYPE(d, offset) # CBOR_ARRAY THEN Untouched(out0, {offset})
    ELSE [ret |-> 1, out |-> SizeT(U64(CBOR_ADDITIONAL_INFO(d, offset))),
          rd |-> {offset}, dstw |-> {}]

cbor_deserialize_array(d, offset, out0) ==
    IF CBOR_TYPE(d, offset) # CBOR_ARRAY THEN Untouched(out0, {offset})
    ELSE LET di == decode_int(d, offset)
         IN  [ret |-> di.ret, out |-> SizeT(di.val), rd |-> di.rd, dstw |-> {}]

cbor_deserialize_map(d, offset, out0) ==
    IF CBOR_TYPE(d, offset) # CBOR_MAP THEN Untouched(out0, {offset})
    ELSE LET di == decode_int(d, offset)
         IN  [ret |-> di.ret, out |-> SizeT(di.val), rd |-> di.rd, dstw |-> {}]

cbor_deserialize_indefinite_array(d, offset, out0) ==
    IF At(d, offset) # BitOr(CBOR_ARRAY, CBOR_VAR_FOLLOWS)
    THEN Untouched(out0, {offset})
    ELSE [ret |-> 1, out |-> out0, rd |-> {offset}, dstw |-> {}]

cbor_deserialize_indefinite_map(d, offset, out0) ==
    IF At(d, offset) # BitOr(CBOR_MAP, CBOR_VAR_FOLLOWS)
    THEN Untouched(out0, {offset})
    ELSE [ret |-> 1, out |-> out0, rd |-> {offset}, dstw |-> {}]

\* *val = (time_t)epoch keeps the low 32 bits
cbor_deserialize_date_time_epoch(d, offset, out0) ==
    IF CBOR_TYPE(d, offset) # CBOR_TAG
          \/ CBOR_ADDITIONAL_INFO(d, offset) # CBOR_DATETIME_EPOCH_FOLLOWS
    THEN Untouched(out0, {offset})
    ELSE LET epoch == cbor_deserialize_uint64_t(d, offset + 1, U64(0))
         IN  IF epoch.ret = 0 THEN Untouched(out0, {offset} \cup epoch.rd)
             ELSE [ret |-> epoch.ret + 1, out |-> IntOfU64(epoch.out),
                   rd |-> {offset} \cup epoch.rd, dstw |-> {}]

-----------------------------------------------------------------------------
(* The loop predicates.  null: the stream pointer s is a null pointer.  A  *)
(* predicate yields [ret, rd]: ret is the bool as the C int it converts to *)
(* (the walker adds it to a byte count), rd the indices of d it reads.     *)

\* a C bool as an integer
BoolInt(b) == IF b THEN 1 ELSE 0

\* an end test against the position itself: offset >= s->pos
AtEndTest_exact(null, s, offset) ==
    IF null THEN TRUE ELSE offset >= s.pos

\* s ? offset >= s->pos - 1 : true, pos being a size_t: for pos = 0 the
\* difference wraps to SIZE_MAX, which no offset of the model reaches
AtEndTest(null, s, offset) ==
    IF null THEN TRUE
    ELSE IF s.pos = 0 THEN FALSE
    ELSE offset >= s.pos - 1

\* cbor_at_end(s, offset)
cbor_at_end(null, s, d, offset) ==
    [ret |-> BoolInt(AtEndTest(null, s, offset)), rd |-> {}]

\* cbor_at_break(s, offset)
cbor_at_break(null, s, d, offset) ==
    IF AtEndTest(null, s, offset) THEN [ret |-> 1, rd |-> {}]
    ELSE [ret |-> BoolInt(At(d, offset) = CBOR_BREAK), rd |-> {offset}]

\* cbor_at_tag(s, offset)
\* a tag test that looks at the byte only: CBOR_TYPE(s, offset) == CBOR_TAG
cbor_at_tag_bytewise(null, s, d, offset) ==
    [ret |-> BoolInt(CBOR_TYPE(d, offset) = CBOR_TAG), rd |-> {offset}]

cbor_at_tag(null, s, d, offset) ==
    IF AtEndTest(null, s, offset) THEN [ret |-> 1, rd |-> {}]
    ELSE [ret |-> BoolInt(CBOR_TYPE(d, offset) = CBOR_TAG), rd |-> {offset}]

-----------------------------------------------------------------------------
(* Inputs *)

\* The life-cycle specification (phases "stream", "destroyed") and the
\* items of a container (phase "open") draw few values of each
\* type, the harness specification the values at every boundary.
Few == phase \in { "stream", "destroyed", "open" }

INT_MAX == 2147483647
INT_MIN == -INT_MAX - 1

\* the int values at the head width boundaries
IntVals ==
    IF Few THEN { 0, -1, 24 }
    ELSE { 0, 1, 23, 24, 255, 256, 65535, 65536, INT_MAX,
           -1, -24, -25, -256, -257, -65536, -65537, INT_MIN }

UINT32_MAX == << 0, 0, 0, 0, 255, 255, 255, 255 >>
UINT64_MAX == << 255, 255, 255, 255, 255, 255, 255, 255 >>
INT64_MAX == << 127, 255, 255, 255, 255, 255, 255, 255 >>
INT64_MIN == << 128, 0, 0, 0, 0, 0, 0, 0 >>

Uint64Vals ==
    IF Few THEN { U64(0) } ELSE
    { U64(0), U64(23), U64(24), U64(255), U64(256), U64(65535), U64(65536),
      UINT32_MAX, << 0, 0, 0, 1, 0, 0, 0, 0 >>, INT64_MAX, INT64_MIN, UINT64_MAX }

Int64Vals ==
    IF Few THEN { I64OfInt(-1) } ELSE
    { I64OfInt(v) : v \in { 0, 23, 24, 65536, INT_MAX, -1, -24, -25, -256, -257,
                            -65536, -65537, INT_MIN } }
        \cup { UINT32_MAX, << 0, 0, 0, 1, 0, 0, 0, 0 >>, INT64_MAX, INT64_MIN,
               Sub64(MinusOne64, UINT32_MAX),
               Sub64(MinusOne64, << 0, 0, 0, 1, 0, 0, 0, 0 >>) }

\* float bit patterns: 0, -0, inf, -inf, NaN, 1, 1.5, -4, 2^-24, 100000, FLT_MAX;
\* below the half range: the least denormal, the exponents 102 and -102;
\* above it: 65536, its successor, a NaN with the lowest bit only, -NaN;
\* in it: 1 + 2^-11 - 2^-23, 1 + 2^-11, 1 + 2^-11 + 2^-23, 1 + 3 * 2^-11,
\* 2 - 2^-11, 2^-14, 65504, 65520
FloatVals ==
    IF Few THEN { << 63, 192, 0, 0 >> } ELSE
    { << 0, 0, 0, 0 >>, << 128, 0, 0, 0 >>, << 127, 128, 0, 0 >>,
      << 255, 128, 0, 0 >>, << 127, 192, 0, 0 >>, << 63, 128, 0, 0 >>,
      << 63, 192, 0, 0 >>, << 192, 128, 0, 0 >>, << 51, 128, 0, 0 >>,
      << 71, 195, 80, 0 >>, << 127, 127, 255, 255 >>,
      << 0, 0, 0, 1 >>, << 51, 127, 255, 255 >>, << 179, 0, 0, 0 >>,
      << 71, 128, 0, 0 >>, << 71, 128, 0, 1 >>, << 127, 128, 0, 1 >>,
      << 255, 192, 0, 0 >>,
      << 63, 128, 15, 255 >>, << 63, 128, 16, 0 >>, << 63, 128, 16, 1 >>,
      << 63, 128, 48, 0 >>, << 63, 255, 240, 0 >>, << 56, 128, 0, 0 >>,
      << 71, 127, 224, 0 >>, << 71, 127, 240, 0 >> }

\* double bit patterns: 0, inf, NaN, 1.1, -4.1
DoubleVals ==
    IF Few THEN { << 63, 241, 153, 153, 153, 153, 153, 154 >> } ELSE
    { << 0, 0, 0, 0, 0, 0, 0, 0 >>, << 127, 240, 0, 0, 0, 0, 0, 0 >>,
      << 127, 248, 0, 0, 0, 0, 0, 0 >>,
      << 63, 241, 153, 153, 153, 153, 153, 154 >>,
      << 192, 16, 102, 102, 102, 102, 102, 102 >> }

\* the zero-free strings "", "a", "1", "ab", "foo"
StringVals ==
    IF Few THEN { << 97 >> } ELSE
    { << >>, << 97 >>, << 49 >>, << 97, 98 >>, << 102, 111, 111 >> }

LengthVals == IF Few THEN { 3 } ELSE { 0, 1, 2, 3, 23, 24, 256, 65536 }

\* epoch times, negative ones too
EpochVals ==
    IF Few THEN { 24 }
    ELSE { INT_MIN, -1, 0, 23, 24, 255, 256, 65535, 65536, INT_MAX }

TagVals == IF Few THEN { 2 } ELSE 0..23

\* what lies behind the buffer, for a read past its end
Behind == { [i \in 1..(MaxDst + 12) |-> b] : b \in { 0, 255 } }

\* the caller's out value before a deserialize, by type
IntOut0 == { 0, 77 }
U64Out0 == { U64(0), U64(77) }
BoolOut0 == { FALSE, TRUE }
FloatOut0 == { << 0, 0, 0, 0 >>, << 66, 154, 0, 0 >> }
DoubleOut0 == { << 0, 0, 0, 0, 0, 0, 0, 0 >>, << 64, 83, 64, 0, 0, 0, 0, 0 >> }
HalfOut0 ==
    { [kind |-> "finite", neg |-> FALSE, mant |-> 0, exp |-> -24],
      [kind |-> "finite", neg |-> FALSE, mant |-> 1232, exp |-> -4] }

\* a destination of dst_cap bytes, filled with 0xAA
Dst(dst_cap) == [i \in 1..dst_cap |-> 170]

-----------------------------------------------------------------------------
(* The calls.  call records the last call: its operation, argument and     *)
(* return value, the stream and the buffer before it (pre, mem0; not kept  *)
(* for init and destroy, which overwrite every field), the                 *)
(* indices it stored to (wr), and for a deserialize the offset, the         *)
(* destination capacity, the out value before and after, the indices read   *)
(* and the destination indices stored to.                                   *)

NoCall ==
    [op |-> "none", kind |-> "none", arg |-> 0, ret |-> 0,
     pre |-> [data |-> NULL, size |-> 0, pos |-> 0], mem0 |-> << >>, wr |-> {},
     offset |-> 0, cap |-> 0, out0 |-> 0, out |-> 0, rd |-> {}, dstw |-> {}]

Called(op, kind, arg, ret, wr) ==
    [NoCall EXCEPT !.op = op, !.kind = kind, !.arg = arg, !.ret = ret,
                   !.pre = stream, !.mem0 = mem, !.wr = wr]

\* a serialize call whose outcome is r
Serialize(op, arg, r) ==
    /\ stream' = r.stream
    /\ mem' = r.mem
    /\ call' = Called(op, "serialize", arg, r.ret, r.wr)

\* a deserialize call at offset whose outcome is res
Deserialize(op, offset, cap, out0, res) ==
    /\ call' = [Called(op, "deserialize", 0, res.ret, {})
                   EXCEPT !.offset = offset, !.cap = cap, !.out0 = out0,
                          !.out = res.out, !.rd = res.rd, !.dstw = res.dstw]
    /\ UNCHANGED << stream, mem >>

\* cbor_init(stream, buffer, size) over a zeroed buffer of size bytes
\* (the null pointer for size 0)
Init_(size) ==
    /\ stream' = [data |-> IF size = 0 THEN NULL ELSE BUF, size |-> size, pos |-> 0]
    /\ mem' = [i \in 1..size |-> 0]
    /\ call' = [NoCall EXCEPT !.op = "init", !.kind = "init", !.arg = size]

\* a clear that wipes the buffer as well
Clear_wiping ==
    /\ stream' = [stream EXCEPT !.pos = 0]
    /\ mem' = [i \in 1..Len(mem) |-> 0]
    /\ call' = Called("clear", "clear", 0, 0, {})

\* cbor_clear(stream)
Clear ==
    /\ stream' = [stream EXCEPT !.pos = 0]
    /\ mem' = mem
    /\ call' = Called("clear", "clear", 0, 0, {})

\* a destroy that rewinds the stream and keeps the buffer
Destroy_rewinding ==
    /\ stream' = [stream EXCEPT !.pos = 0]
    /\ mem' = mem
    /\ call' = [NoCall EXCEPT !.op = "destroy", !.kind = "destroy"]

\* cbor_destroy(stream): the stream lets go of the buffer
Destroy ==
    /\ stream' = [data |-> NULL, size |-> 0, pos |-> 0]
    /\ mem' = << >>
    /\ call' = [NoCall EXCEPT !.op = "destroy", !.kind = "destroy"]

R0 == Begin(stream, mem)

SerializeInt == \E v \in IntVals :
    Serialize("int", v, cbor_serialize_int(R0, v))
SerializeUint64 == \E v \in Uint64Vals :
    Serialize("uint64_t", v, cbor_serialize_uint64_t(R0, v))
SerializeInt64 == \E v \in Int64Vals :
    Serialize("int64_t", v, cbor_serialize_int64_t(R0, v))
SerializeBool == \E v \in BOOLEAN :
    Serialize("bool", v, cbor_serialize_bool(R0, v))
SerializeFloatHalf == \E v \in FloatVals :
    Serialize("float_half", v, cbor_serialize_float_half(R0, v))
SerializeFloat == \E v \in FloatVals :
    Serialize("float", v, cbor_serialize_float(R0, v))
SerializeDouble == \E v \in DoubleVals :
    Serialize("double", v, cbor_serialize_double(R0, v))
SerializeByteString == \E v \in StringVals :
    Serialize("byte_string", v, cbor_serialize_byte_string(R0, v))
SerializeUnicodeString == \E v \in StringVals :
    Serialize("unicode_string", v, cbor_serialize_unicode_string(R0, v))
SerializeArray == \E n \in LengthVals :
    Serialize("array", n, cbor_serialize_array(R0, n))
SerializeMap == \E n \in LengthVals :
    Serialize("map", n, cbor_serialize_map(R0, n))
SerializeIndefiniteArray ==
    Serialize("indefinite_array", 0, cbor_serialize_indefinite_array(R0))
SerializeIndefiniteMap ==
    Serialize("indefinite_map", 0, cbor_serialize_indefinite_map(R0))
WriteTag == \E t \in TagVals :
    Serialize("tag", t, cbor_write_tag(R0, t))
WriteBreak ==
    Serialize("break", 0, cbor_write_break(R0))
SerializeDateTimeEpoch == \E v \in EpochVals :
    Serialize("date_time_epoch", v, cbor_serialize_date_time_epoch(R0, v))

\* the typed deserializes at an offset of offs
DeserializeInt(offs) == \E o \in offs, out0 \in IntOut0, b \in Behind :
    Deserialize("int", o, 0, out0, cbor_deserialize_int(mem \o b, o, out0))
DeserializeUint64(offs) == \E o \in offs, out0 \in U64Out0, b \in Behind :
    Deserialize("uint64_t", o, 0, out0, cbor_deserialize_uint64_t(mem \o b, o, out0))
DeserializeInt64(offs) == \E o \in offs, out0 \in U64Out0, b \in Behind :
    Deserialize("int64_t", o, 0, out0, cbor_deserialize_int64_t(mem \o b, o, out0))
DeserializeBool(offs) == \E o \in offs, out0 \in BoolOut0, b \in Behind :
    Deserialize("bool", o, 0, out0, cbor_deserialize_bool(mem \o b, o, out0))
DeserializeFloatHalf(offs) == \E o \in offs, out0 \in HalfOut0, b \in Behind :
    Deserialize("float_half", o, 0, out0,
                cbor_deserialize_float_half(mem \o b, o, out0))
DeserializeFloat(offs) == \E o \in offs, out0 \in FloatOut0, b \in Behind :
    Deserialize("float", o, 0, out0, cbor_deserialize_float(mem \o b, o, out0))
DeserializeDouble(offs) == \E o \in offs, out0 \in DoubleOut0, b \in Behind :
    Deserialize("double", o, 0, out0, cbor_deserialize_double(mem \o b, o, out0))
DeserializeByteString(offs) == \E o \in offs, cap \in 0..MaxDst, b \in Behind :
    Deserialize("byte_string", o, cap, Dst(cap),
                cbor_deserialize_byte_string(mem \o b, o, Dst(cap), cap))
DeserializeUnicodeString(offs) == \E o \in offs, cap \in 0..MaxDst, b \in Behind :
    Deserialize("unicode_string", o, cap, Dst(cap),
                cbor_deserialize_unicode_string(mem \o b, o, Dst(cap), cap))
DeserializeArray(offs) == \E o \in offs, out0 \in U64Out0, b \in Behind :
    Deserialize("array", o, 0, out0, cbor_deserialize_array(mem \o b, o, out0))
DeserializeMap(offs) == \E o \in offs, out0 \in U64Out0, b \in Behind :
    Deserialize("map", o, 0, out0, cbor_deserialize_map(mem \o b, o, out0))
DeserializeIndefiniteArray(offs) == \E o \in offs, b \in Behind :
    Deserialize("indefinite_array", o, 0, 0,
                cbor_deserialize_indefinite_array(mem \o b, o, 0))
DeserializeIndefiniteMap(offs) == \E o \in offs, b \in Behind :
    Deserialize("indefinite_map", o, 0, 0,
                cbor_deserialize_indefinite_map(mem \o b, o, 0))

\* the head decoder on its own: out is the value it stores to *val
DecodeInt(offs) == \E o \in offs, b \in Behind :
    LET di == decode_int(mem \o b, o)
    IN  Deserialize("decode_int", o, 0, U64(77),
                    [ret |-> di.ret, out |-> di.val, rd |-> di.rd, dstw |-> {}])

\* a predicate call at offset whose outcome is res; arg: the stream pointer
\* is null
Predicate(op, null, offset, res) ==
    /\ call' = [Called(op, "predicate", null, res.ret, {})
                   EXCEPT !.offset = offset, !.rd = res.rd]
    /\ UNCHANGED << stream, mem >>

AtEnd(offs) == \E null \in BOOLEAN, o \in offs, b \in Behind :
    Predicate("at_end", null, o, cbor_at_end(null, stream, mem \o b, o))
AtBreak(offs) == \E null \in BOOLEAN, o \in offs, b \in Behind :
    Predicate("at_break", null, o, cbor_at_break(null, stream, mem \o b, o))
DeserializeDateTimeEpoch(offs) == \E o \in offs, out0 \in IntOut0, b \in Behind :
    Deserialize("date_time_epoch", o, 0, out0,
                cbor_deserialize_date_time_epoch(mem \o b, o, out0))
AtTag(offs) == \E null \in BOOLEAN, o \in offs, b \in Behind :
    Predicate("at_tag", null, o, cbor_at_tag(null, stream, mem \o b, o))

-----------------------------------------------------------------------------
(* Spec: the life cycle of one stream: any sequence of init, clear,        *)
(* destroy, typed serialize, write_tag and write_break calls.               *)

\* the harness's record of the item it serialized last (SpecRT)
NoItem == [op |-> "none", arg |-> 0, ret |-> 0, offset |-> 0]

\* the bytes of the items serialized since the last clear, as each call wrote
\* them; clean: no serialize since then returned 0 after changing the stream
NoLog == [bytes |-> << >>, clean |-> TRUE]

\* the walker cbor_stream_decode is not running
NoWalk == [state |-> "idle"]

Init ==
    /\ \E n \in 0..MaxCap :
          /\ stream = [data |-> IF n = 0 THEN NULL ELSE BUF, size |-> n, pos |-> 0]
          /\ mem = [i \in 1..n |-> 0]
    /\ call = NoCall
    /\ phase = "stream"
    /\ item = NoItem
    /\ log = NoLog
    /\ walk = NoWalk

\* the harness variables of SpecRT stay as they are
Keep == phase' = phase /\ item' = item /\ walk' = walk

\* the stream has a buffer again
Held == phase' = "stream" /\ item' = item /\ walk' = walk

\* the stream is destroyed until the next cbor_init
Gone == phase' = "destroyed" /\ item' = item /\ walk' = walk

\* the log follows the call: init, clear and destroy empty it, a successful
\* serialize appends the bytes between the old and the new position
Logged ==
    log' = CASE call'.kind \in { "init", "clear", "destroy" } -> NoLog
             [] call'.kind = "serialize" /\ call'.ret # 0 ->
                   [log EXCEPT !.bytes = @ \o SubSeq(mem', stream.pos + 1,
                       IF stream'.pos <= Len(mem') THEN stream'.pos ELSE Len(mem'))]
             [] call'.kind = "serialize" /\ call'.ret = 0 ->
                   [log EXCEPT !.clean = @ /\ stream' = stream /\ mem' = mem]
             [] OTHER -> log

Next ==
    \/ (\E n \in 0..MaxCap : Init_(n)) /\ Held /\ Logged
    \/ Clear /\ Keep /\ Logged
    \/ Destroy /\ Gone /\ Logged
    \/ SerializeInt /\ Keep /\ Logged
    \/ SerializeUint64 /\ Keep /\ Logged
    \/ SerializeInt64 /\ Keep /\ Logged
    \/ SerializeBool /\ Keep /\ Logged
    \/ SerializeFloatHalf /\ Keep /\ Logged
    \/ SerializeFloat /\ Keep /\ Logged
    \/ SerializeDouble /\ Keep /\ Logged
    \/ SerializeByteString /\ Keep /\ Logged
    \/ SerializeUnicodeString /\ Keep /\ Logged
    \/ SerializeArray /\ Keep /\ Logged
    \/ SerializeMap /\ Keep /\ Logged
    \/ SerializeIndefiniteArray /\ Keep /\ Logged
    \/ SerializeIndefiniteMap /\ Keep /\ Logged
    \/ WriteTag /\ Keep /\ Logged
    \/ WriteBreak /\ Keep /\ Logged
    \/ SerializeDateTimeEpoch /\ Keep /\ Logged

Spec == Init /\ [][Next]_vars

-----------------------------------------------------------------------------
(* SpecRT: the unit tests' harness (CBOR_CHECK and the *_invalid tests) on *)
(* a stream that holds pos zero bytes already: serialize calls as long as   *)
(* they leave the stream as it is, then, once an item is written, one       *)
(* deserialize at the offset it was written to.                             *)

InitRT ==
    /\ \E n \in 0..MaxSize : \E p \in 0..n :
          /\ p < n \/ p = 0
          /\ stream = [data |-> IF n = 0 THEN NULL ELSE BUF, size |-> n, pos |-> p]
          /\ mem = [i \in 1..n |-> 0]
    /\ call = NoCall
    /\ phase = "cleared"
    /\ item = NoItem
    /\ log = NoLog
    /\ walk = NoWalk

\* cbor_clear(&stream) is done and nothing is written yet
Cleared == phase = "cleared"

\* TEST_ASSERT(cbor_serialize_...(&stream, input)): the harness notes the item
\* and the offset it went to; a refused call that left the stream as it was
\* may be followed by another one
Written ==
    /\ phase' = IF stream' = stream /\ mem' = mem THEN "cleared" ELSE "serialized"
    /\ item' = [op |-> call'.op, arg |-> call'.arg, ret |-> call'.ret,
                offset |-> stream.pos]
    /\ UNCHANGED << log, walk >>

\* the item is written: it is deserialized once
Read ==
    /\ phase = "serialized"
    /\ call.ret # 0
    /\ phase' = "deserialized"
    /\ item' = item
    /\ UNCHANGED << log, walk >>

NextRT ==
    \/ Cleared /\ SerializeInt /\ Written
    \/ Cleared /\ SerializeUint64 /\ Written
    \/ Cleared /\ SerializeInt64 /\ Written
    \/ Cleared /\ SerializeBool /\ Written
    \/ Cleared /\ SerializeFloatHalf /\ Written
    \/ Cleared /\ SerializeFloat /\ Written
    \/ Cleared /\ SerializeDouble /\ Written
    \/ Cleared /\ SerializeByteString /\ Written
    \/ Cleared /\ SerializeUnicodeString /\ Written
    \/ Cleared /\ SerializeArray /\ Written
    \/ Cleared /\ SerializeMap /\ Written
    \/ Cleared /\ SerializeIndefiniteArray /\ Written
    \/ Cleared /\ SerializeIndefiniteMap /\ Written
    \/ Cleared /\ WriteTag /\ Written
    \/ Cleared /\ WriteBreak /\ Written
    \/ Cleared /\ SerializeDateTimeEpoch /\ Written
    \/ Read /\ DeserializeInt({item.offset})
    \/ Read /\ DeserializeUint64({item.offset})
    \/ Read /\ DeserializeInt64({item.offset})
    \/ Read /\ DeserializeBool({item.offset})
    \/ Read /\ DeserializeFloatHalf({item.offset})
    \/ Read /\ DeserializeFloat({item.offset})
    \/ Read /\ DeserializeDouble({item.offset})
    \/ Read /\ DeserializeByteString({item.offset})
    \/ Read /\ DeserializeUnicodeString({item.offset})
    \/ Read /\ DeserializeArray({item.offset})
    \/ Read /\ DeserializeMap({item.offset})
    \/ Read /\ DeserializeIndefiniteArray({item.offset})
    \/ Read /\ DeserializeIndefiniteMap({item.offset})
    \/ Read /\ DeserializeDateTimeEpoch({item.offset})
    \/ Read /\ AtEnd({item.offset, item.offset + 1})
    \/ Read /\ AtBreak({item.offset, item.offset + 1})
    \/ Read /\ AtTag({item.offset, item.offset + 1})

SpecRT == InitRT /\ [][NextRT]_vars

-----------------------------------------------------------------------------
(* SpecRaw: the unit tests' harness on received data (the *_invalid tests: *)
(* cbor_stream_t stream = {data, n, pos} over bytes that need not come     *)
(* from this encoder) and on a fresh stream that one bool or one tag is     *)
(* written to; then one read-only call: a typed deserialize, the head       *)
(* decoder or a loop predicate.                                             *)

\* the initial bytes: every major type with the additional information 0, 5
\* and 23..31, and every byte of major type 7
RawHeads ==
    { m * 32 + ai : m \in 0..7, ai \in { 0, 5 } \cup 23..31 } \cup 224..255

\* the bytes after the initial byte: 05 00.., 00 05 .. 80, FF.., 80 .. 80 .. 01
\* (a set top bit in every width), and 41 31 (the byte string "1")
RawTails ==
    { [i \in 1..(MaxRaw - 1) |-> IF i = 1 THEN 5 ELSE 0],
      [i \in 1..(MaxRaw - 1) |-> IF i = 2 THEN 5 ELSE IF i = 8 THEN 128 ELSE 0],
      [i \in 1..(MaxRaw - 1) |-> 255],
      [i \in 1..(MaxRaw - 1) |-> IF i \in { 1, 5 } THEN 128 ELSE IF i = 8 THEN 1 ELSE 0],
      [i \in 1..(MaxRaw - 1) |-> IF i = 1 THEN 65 ELSE IF i = 2 THEN 49 ELSE 0] }

InitRaw ==
    /\ \/ \E h \in RawHeads, t \in RawTails, p \in { 1, 2, MaxRaw } :
             /\ stream = [data |-> BUF, size |-> MaxRaw, pos |-> p]
             /\ mem = << h >> \o t
             /\ phase = "raw"
       \/ \E p \in { 0, 3, MaxRaw - 1, MaxRaw } :
             /\ stream = [data |-> BUF, size |-> MaxRaw, pos |-> p]
             /\ mem = [i \in 1..MaxRaw |-> 0]
             /\ phase = "fresh"
    /\ call = NoCall
    /\ item = NoItem
    /\ log = NoLog
    /\ walk = NoWalk

\* the fresh stream takes one item
Fresh == phase = "fresh"

\* the harness notes the item written to the fresh stream
Taken ==
    /\ phase' = "taken"
    /\ item' = [op |-> call'.op, arg |-> call'.arg, ret |-> call'.ret,
                offset |-> stream.pos]
    /\ UNCHANGED << log, walk >>

\* the tag written to the fresh stream takes its content
Tagged == phase = "taken" /\ item.op = "tag"

\* the harness keeps the note of the tag
Followed ==
    /\ phase' = "followed"
    /\ UNCHANGED << item, log, walk >>

\* one read-only call ends the test, on the fresh stream as well
Inspect ==
    /\ phase \in { "raw", "fresh", "taken", "followed" }
    /\ phase' = "inspected"
    /\ UNCHANGED << item, log, walk >>

NextRaw ==
    \/ Fresh /\ SerializeBool /\ Taken
    \/ Fresh /\ WriteTag /\ Taken
    \/ Tagged /\ SerializeByteString /\ Followed
    \/ Inspect /\ DecodeInt({0})
    \/ Inspect /\ DeserializeInt({0, 1})
    \/ Inspect /\ DeserializeUint64({0, 1})
    \/ Inspect /\ DeserializeInt64({0, 1})
    \/ Inspect /\ DeserializeBool({0, 1})
    \/ Inspect /\ DeserializeFloatHalf({0, 1})
    \/ Inspect /\ DeserializeFloat({0, 1})
    \/ Inspect /\ DeserializeDouble({0, 1})
    \/ Inspect /\ DeserializeByteString({0, 1})
    \/ Inspect /\ DeserializeUnicodeString({0, 1})
    \/ Inspect /\ DeserializeArray({0, 1})
    \/ Inspect /\ DeserializeMap({0, 1})
    \/ Inspect /\ DeserializeIndefiniteArray({0, 1})
    \/ Inspect /\ DeserializeIndefiniteMap({0, 1})
    \/ Inspect /\ AtEnd(0..MaxRaw)
    \/ Inspect /\ AtBreak(0..MaxRaw)
    \/ Inspect /\ AtTag(0..MaxRaw)

SpecRaw == InitRaw /\ [][NextRaw]_vars

-----------------------------------------------------------------------------
(* The walker: cbor_stream_decode and cbor_stream_decode_at, cbor.c:782-949. *)
(* The recursion of cbor_stream_decode_at is a stack of frames, one for     *)
(* each array or map being walked; walk.pc is where the walker stands:      *)
(* "top" at the loop test of cbor_stream_decode, "call" at the entry of     *)
(* cbor_stream_decode_at(stream, walk.at), "loop" at the loop test of the    *)
(* innermost container and "ret" where a call has returned walk.rv to its    *)
(* caller.  The walker reads d = the buffer and what lies behind it          *)
(* (walk.behind); a call at an offset whose head would lie outside d ends    *)
(* the walk in state "fault".  walk.last is the last call that returned      *)
(* (its offset, its count, its nesting depth), walk.inner_failed tells that   *)
(* a nested call returned 0 and walk.visited holds the offsets               *)
(* cbor_stream_decode has called cbor_stream_decode_at with.                 *)

CBOR_STREAM_PRINT_BUFFERSIZE == 1024

\* the memory the walker reads
WalkMem == mem \o walk.behind

\* the head at offset and the item behind a tag byte lie in the memory
InMemory(d, offset) == offset + 10 <= Len(d)

\* the cases of cbor_stream_decode_at that return without a loop: the count
\* returned for the item at offset; parsed: strptime and mktime accept the
\* date/time string
DecodeLeaf(d, offset, parsed) ==
    LET type == CBOR_TYPE(d, offset)
        tag == CBOR_ADDITIONAL_INFO(d, offset)
        byte == At(d, offset)
    IN  IF type = CBOR_UINT THEN cbor_deserialize_int(d, offset, 0).ret
        ELSE IF type = CBOR_BYTES THEN
            cbor_deserialize_byte_string(d, offset,
                Dst(CBOR_STREAM_PRINT_BUFFERSIZE), CBOR_STREAM_PRINT_BUFFERSIZE).ret
        ELSE IF type = CBOR_TEXT THEN
            cbor_deserialize_unicode_string(d, offset,
                Dst(CBOR_STREAM_PRINT_BUFFERSIZE), CBOR_STREAM_PRINT_BUFFERSIZE).ret
        ELSE IF type = CBOR_TAG THEN
            IF tag = CBOR_DATETIME_STRING_FOLLOWS THEN
                LET read_bytes == cbor_deserialize_unicode_string(d, offset + 1,
                                      Dst(21), 21).ret
                IN  IF parsed THEN read_bytes + 1 ELSE 0
            ELSE IF tag = CBOR_DATETIME_EPOCH_FOLLOWS THEN
                cbor_deserialize_date_time_epoch(d, offset, 0).ret
            ELSE 1
        ELSE IF type = CBOR_7 THEN
            IF byte \in { CBOR_FALSE, CBOR_TRUE } THEN
                cbor_deserialize_bool(d, offset, FALSE).ret
            ELSE IF byte = CBOR_FLOAT16 THEN
                cbor_deserialize_float_half(d, offset, 0).ret
            ELSE IF byte = CBOR_FLOAT32 THEN
                cbor_deserialize_float(d, offset, 0).ret
            ELSE IF byte = CBOR_FLOAT64 THEN
                cbor_deserialize_double(d, offset, 0).ret
            ELSE 0
        ELSE 0

\* the locals of cbor_stream_decode_at in a CBOR_ARRAY or CBOR_MAP case, once
\* the head at start is read; part is the call of the iteration that is out,
\* from the offset at which the iteration began, stopped the break taken
Frame(type, start, is_indefinite, length, read_bytes) ==
    [type |-> type, start |-> start, is_indefinite |-> is_indefinite,
     length |-> length, read_bytes |-> read_bytes, offset |-> start + read_bytes,
     i |-> 0, part |-> "none", key_read_bytes |-> 0,
     from |-> start + read_bytes, stopped |-> FALSE]

\* the innermost frame, and the stack with that frame replaced
Top == walk.stack[Len(walk.stack)]
Replace(f) == [walk.stack EXCEPT ![Len(walk.stack)] = f]
Pop == SubSeq(walk.stack, 1, Len(walk.stack) - 1)

\* no call has returned yet
NoReturn == [offset |-> 0, count |-> 0, depth |-> 0, type |-> -1]

Walking(pc) == walk.state = "run" /\ walk.pc = pc

Quiet == UNCHANGED << stream, mem, call, phase, item, log >>

\* cbor_stream_decode up to its loop: offset = 0
StreamDecode ==
    /\ walk.state = "idle"
    /\ phase \in { "received", "fresh", "built" }
    /\ phase' = "walking"
    /\ \E b \in Behind :
          walk' = [state |-> "run", pc |-> "top", behind |-> b, offset |-> 0,
                   at |-> 0, rv |-> 0, stack |-> << >>, last |-> NoReturn,
                   inner_failed |-> FALSE, visited |-> {}]
    /\ UNCHANGED << stream, mem, call, item, log >>

\* while (offset < stream->pos): the call of cbor_stream_decode_at, or the end
StreamDecodeLoop ==
    /\ Walking("top")
    /\ walk' = IF walk.offset < stream.pos
               THEN [walk EXCEPT !.pc = "call", !.at = walk.offset,
                                 !.visited = @ \cup { walk.offset }]
               ELSE [walk EXCEPT !.state = "done"]
    /\ Quiet

\* cbor_stream_decode_at from its entry to its return or to its loop
DecodeAt ==
    /\ Walking("call")
    /\ LET d == WalkMem
           offset == walk.at
           type == CBOR_TYPE(d, offset)
       IN  IF ~InMemory(d, offset) THEN
               walk' = [walk EXCEPT !.state = "fault"]
           ELSE IF type \in { CBOR_ARRAY, CBOR_MAP } THEN
               LET is_indefinite == At(d, offset) = BitOr(type, CBOR_VAR_FOLLOWS)
                   head == IF type = CBOR_ARRAY
                           THEN cbor_deserialize_indefinite_array(d, offset, 0)
                           ELSE cbor_deserialize_indefinite_map(d, offset, 0)
                   di == decode_int(d, offset)
               IN  walk' = [walk EXCEPT
                       !.pc = "loop",
                       !.stack = Append(@,
                           IF is_indefinite
                           THEN Frame(type, offset, TRUE, U64(0), head.ret)
                           ELSE Frame(type, offset, FALSE, di.val, di.ret))]
           ELSE \E parsed \in BOOLEAN :
               LET read_bytes == DecodeLeaf(d, offset, parsed)
               IN  walk' = [walk EXCEPT
                       !.pc = "ret", !.rv = read_bytes,
                       !.last = [offset |-> offset, count |-> read_bytes,
                                 depth |-> Len(walk.stack), type |-> type]]
    /\ Quiet

\* a loop test that forgets the break taken after a failed element
LoopTest_unbroken(f) ==
    IF f.is_indefinite
    THEN cbor_at_break(FALSE, stream, WalkMem, f.offset).ret = 0
    ELSE ~U64Le(f.length, U64(f.i))

\* while (is_indefinite ? !cbor_at_break(stream, offset) : i < length)
LoopTest(f) ==
    /\ ~f.stopped
    /\ IF f.is_indefinite
       THEN cbor_at_break(FALSE, stream, WalkMem, f.offset).ret = 0
       ELSE ~U64Le(f.length, U64(f.i))

\* the loop test holds: the call of cbor_stream_decode_at on the next
\* element or key
ContainerLoop ==
    /\ Walking("loop")
    /\ LoopTest(Top)
    /\ walk' = [walk EXCEPT
           !.pc = "call", !.at = Top.offset,
           !.stack = Replace([Top EXCEPT
               !.from = Top.offset,
               !.part = IF Top.type = CBOR_ARRAY THEN "item" ELSE "key"])]
    /\ Quiet

\* the loop is left: read_bytes += cbor_at_break(stream, offset); return
ContainerReturn ==
    /\ Walking("loop")
    /\ ~LoopTest(Top)
    /\ LET read_bytes == Top.read_bytes
                         + cbor_at_break(FALSE, stream, WalkMem, Top.offset).ret
       IN  walk' = [walk EXCEPT
               !.pc = "ret", !.rv = read_bytes, !.stack = Pop,
               !.last = [offset |-> Top.start, count |-> read_bytes,
                         depth |-> Len(walk.stack) - 1, type |-> Top.type]]
    /\ Quiet

\* a nested call has returned into the loop body of an array or a map
ElementReturned ==
    /\ Walking("ret")
    /\ walk.stack # << >>
    /\ LET f == Top
           moved == [f EXCEPT !.offset = @ + walk.rv]
           failed == IF f.part = "value"
                     THEN f.key_read_bytes = 0 \/ walk.rv = 0
                     ELSE walk.rv = 0
       IN  IF f.part = "key" THEN
               walk' = [walk EXCEPT
                   !.pc = "call", !.at = moved.offset,
                   !.inner_failed = @ \/ walk.rv = 0,
                   !.stack = Replace([moved EXCEPT !.part = "value",
                                                   !.key_read_bytes = walk.rv])]
           ELSE
               walk' = [walk EXCEPT
                   !.pc = "loop",
                   !.inner_failed = @ \/ walk.rv = 0,
                   !.stack = Replace(
                       IF failed THEN [moved EXCEPT !.stopped = TRUE]
                       ELSE [moved EXCEPT
                               !.read_bytes = @ + f.key_read_bytes + walk.rv,
                               !.key_read_bytes = 0,
                               !.i = @ + 1])]
    /\ Quiet

\* the call has returned to cbor_stream_decode: a zero is reported and ends
\* the walk, anything else is added to offset
StreamDecodeReturned ==
    /\ Walking("ret")
    /\ walk.stack = << >>
    /\ walk' = IF walk.rv = 0
               THEN [walk EXCEPT !.state = "failed"]
               ELSE [walk EXCEPT !.pc = "top", !.offset = @ + walk.rv]
    /\ Quiet

\* one step of the walker once cbor_stream_decode is entered
WalkStep ==
    \/ StreamDecodeLoop
    \/ DecodeAt
    \/ ContainerLoop
    \/ ContainerReturn
    \/ ElementReturned
    \/ StreamDecodeReturned

-----------------------------------------------------------------------------
(* SpecWalk: cbor_stream_decode on a stream of received bytes, or on a      *)
(* stream that cbor_serialize_int calls have filled (test_stream_decode).   *)

\* the bytes of received contents: 0, -1, array(1), an array head with
\* additional information 28, indefinite array, map(1), indefinite map,
\* tag 2, null, break
WalkBytes == { 0, 32, 129, 156, 159, 161, 191, 194, 246, 255 }

WalkContents == UNION { [1..n -> WalkBytes] : n \in 0..MaxLen }

InitWalk ==
    /\ \/ \E c \in WalkContents, p \in 0..MaxLen :
             /\ p \in { Len(c) - 1, Len(c) }
             /\ stream = [data |-> BUF, size |-> Len(c), pos |-> p]
             /\ mem = c
             /\ phase = "received"
       \/ /\ stream = [data |-> BUF, size |-> MaxLen, pos |-> 0]
          /\ mem = [i \in 1..MaxLen |-> 0]
          /\ phase = "fresh"
    /\ call = NoCall
    /\ item = [NoItem EXCEPT !.arg = << >>]
    /\ log = NoLog
    /\ walk = NoWalk

\* the stream is being filled
Building == phase \in { "fresh", "built" }

\* the harness notes the values written
Noted ==
    /\ phase' = "built"
    /\ item' = IF call'.ret = 0 THEN item
               ELSE [op |-> call'.op, arg |-> Append(item.arg, call'.arg),
                     ret |-> call'.ret, offset |-> stream.pos]
    /\ UNCHANGED << log, walk >>

NextWalk ==
    \/ Building /\ SerializeInt /\ Noted
    \/ StreamDecode
    \/ StreamDecodeLoop
    \/ DecodeAt
    \/ ContainerLoop
    \/ ContainerReturn
    \/ ElementReturned
    \/ StreamDecodeReturned

SpecWalk == InitWalk /\ [][NextWalk]_vars

\* the walker is one call: once entered it runs on
SpecWalkFair == SpecWalk /\ WF_vars(WalkStep)

-----------------------------------------------------------------------------
(* SpecSeq: the container tests test_major_type_4 and test_major_type_5: a  *)
(* container head, items and, for an indefinite container, a break are      *)
(* serialized into a cleared stream (a refused call fails the test's        *)
(* TEST_ASSERT and ends it), then the head is deserialized at offset 0 and  *)
(* the items one by one at the running sum of the returned counts: as many  *)
(* as were written behind a definite head, as long as cbor_at_break is      *)
(* false behind an indefinite one.  item notes what was written, walk the   *)
(* reading loop: its offset, what the head gave, the number of calls made   *)
(* behind it and what they gave.                                            *)

\* the size of the test's buffer: as much as the longest sequence needs, or 3
SeqSize == 7 + 2 * MaxItems

InitSeq ==
    /\ \E n \in { 3, SeqSize } :
          /\ stream = [data |-> BUF, size |-> n, pos |-> 0]
          /\ mem = [i \in 1..n |-> 0]
    /\ call = NoCall
    /\ phase = "cleared"
    /\ item = NoItem
    /\ log = NoLog
    /\ walk = NoWalk

\* TEST_ASSERT(cbor_serialize_array(&stream, 2)) and its like: the head
Opened ==
    /\ phase' = IF call'.ret = 0 THEN "aborted" ELSE "open"
    /\ item' = [op |-> call'.op, arg |-> call'.arg, ret |-> call'.ret,
                offset |-> stream.pos, items |-> << >>]
    /\ UNCHANGED << log, walk >>

\* the container takes another item
Open == phase = "open" /\ Len(item.items) < MaxItems

\* TEST_ASSERT(cbor_serialize_int(&stream, 1)) and its like: an item
Added ==
    /\ phase' = IF call'.ret = 0 THEN "aborted" ELSE "open"
    /\ item' = [item EXCEPT !.items = Append(@, [op |-> call'.op,
                                                  arg |-> call'.arg,
                                                  ret |-> call'.ret])]
    /\ UNCHANGED << log, walk >>

IndefiniteOps == { "indefinite_array", "indefinite_map" }

\* the indefinite container is open
Unbroken == phase = "open" /\ item.op \in IndefiniteOps

\* TEST_ASSERT(cbor_write_break(&stream))
Closed ==
    /\ phase' = IF call'.ret = 0 THEN "aborted" ELSE "closed"
    /\ UNCHANGED << item, log, walk >>

\* the serialization of a container with head op is done
Ready(op) ==
    /\ item.op = op
    /\ phase = IF op \in IndefiniteOps THEN "closed" ELSE "open"

\* size_t offset = cbor_deserialize_array(&stream, 0, &array_length)
Begun ==
    /\ phase' = "reading"
    /\ walk' = [state |-> "loop", offset |-> call'.ret, count |-> 0,
                head |-> [ret |-> call'.ret, out |-> call'.out], got |-> << >>]
    /\ UNCHANGED << item, log >>

\* a loop test that goes by the number of items also behind an indefinite head
LoopOn_counting ==
    IF item.op \notin IndefiniteOps THEN walk.count < Len(item.items)
    ELSE walk.count < Len(item.items) + 1

\* while (!cbor_at_break(&stream, offset)), tested before an element or a
\* key; behind a definite head the test reads as many items as it wrote
LoopOn ==
    IF item.op \notin IndefiniteOps THEN walk.count < Len(item.items)
    ELSE IF item.op = "indefinite_map" /\ walk.count % 2 = 1 THEN TRUE
    ELSE cbor_at_break(FALSE, stream, mem, walk.offset).ret = 0

\* the deserialize the test calls next: that of the item written, behind an
\* indefinite head ints, or int keys and byte string values
NextType ==
    IF item.op \notin IndefiniteOps THEN item.items[walk.count + 1].op
    ELSE IF item.op = "indefinite_map" /\ walk.count % 2 = 1 THEN "byte_string"
    ELSE "int"

\* the loop body is entered for a deserialize of type op
Reading(op) == phase = "reading" /\ LoopOn /\ NextType = op

\* offset += read_bytes = cbor_deserialize_...(&stream, offset, &val), with
\* TEST_ASSERT(read_bytes) in the loops over indefinite containers
Got ==
    /\ phase' = IF item.op \in IndefiniteOps /\ call'.ret = 0
                THEN "aborted" ELSE "reading"
    /\ walk' = [walk EXCEPT !.offset = @ + call'.ret, !.count = @ + 1,
                            !.got = Append(@, [op |-> call'.op,
                                               out |-> call'.out,
                                               ret |-> call'.ret])]
    /\ UNCHANGED << item, log >>

\* the loop is left
Leaving == phase = "reading" /\ ~LoopOn

\* TEST_ASSERT(cbor_at_end(&stream, offset)) behind the loop
Exited ==
    /\ ~call'.arg
    /\ phase' = "exited"
    /\ walk' = [walk EXCEPT !.state = "exited"]
    /\ UNCHANGED << item, log >>

NextSeq ==
    \/ Cleared /\ SerializeArray /\ Opened
    \/ Cleared /\ SerializeMap /\ Opened
    \/ Cleared /\ SerializeIndefiniteArray /\ Opened
    \/ Cleared /\ SerializeIndefiniteMap /\ Opened
    \/ Open /\ SerializeInt /\ Added
    \/ Open /\ SerializeByteString /\ Added
    \/ Unbroken /\ WriteBreak /\ Closed
    \/ Ready("array") /\ DeserializeArray({0}) /\ Begun
    \/ Ready("map") /\ DeserializeMap({0}) /\ Begun
    \/ Ready("indefinite_array") /\ DeserializeIndefiniteArray({0}) /\ Begun
    \/ Ready("indefinite_map") /\ DeserializeIndefiniteMap({0}) /\ Begun
    \/ Reading("int") /\ DeserializeInt({walk.offset}) /\ Got
    \/ Reading("byte_string") /\ DeserializeByteString({walk.offset})
          /\ call'.cap = MaxDst /\ Got
    \/ Leaving /\ AtEnd({walk.offset}) /\ Exited

SpecSeq == InitSeq /\ [][NextSeq]_vars

-----------------------------------------------------------------------------
(* What the specification of the codec expects, stated on its own terms    *)

RECURSIVE DigitsOf(_, _)
\* the k big-endian base-256 digits of the natural number n
DigitsOf(n, k) == IF k = 0 THEN << >> ELSE Append(DigitsOf(n \div 256, k - 1), n % 256)

\* the number of bytes an argument needs: 8 less its leading zero bytes
Significant(W) ==
    IF \A i \in 1..8 : W[i] = 0 THEN 0
    ELSE 9 - (CHOOSE i \in 1..8 : W[i] # 0 /\ \A j \in 1..(i - 1) : W[j] = 0)

\* the length of the minimum-width head of argument W: 1, 2, 3, 5 or 9
MinWidth(W) ==
    IF Significant(W) = 0 \/ (Significant(W) = 1 /\ W[8] <= 23) THEN 1
    ELSE IF Significant(W) = 1 THEN 2
    ELSE IF Significant(W) = 2 THEN 3
    ELSE IF Significant(W) <= 4 THEN 5
    ELSE 9

\* the minimum-width head of argument W: major | ai, then W in big-endian order
HeadOf(major, W) ==
    LET w == MinWidth(W)
    IN  IF w = 1 THEN << major + W[8] >>
        ELSE << major + (IF w = 2 THEN 24 ELSE IF w = 3 THEN 25
                         ELSE IF w = 5 THEN 26 ELSE 27) >>
             \o SubSeq(W, 10 - w, 8)

IntegerOps == { "int", "uint64_t", "int64_t", "array", "map" }
StringOps == { "byte_string", "unicode_string" }

\* the major type the specification gives the item serialize_<op>(arg) writes
MajorOf(op, arg) ==
    CASE op = "int" -> IF arg >= 0 THEN 0 ELSE 32
      [] op = "uint64_t" -> 0
      [] op = "int64_t" -> IF arg[1] < 128 THEN 0 ELSE 32
      [] op = "byte_string" -> 64
      [] op = "unicode_string" -> 96
      [] op = "array" -> 128
      [] op = "map" -> 160

\* its argument N: v, or -1 - v for a negative v (the complement of an int64_t)
ArgOf(op, arg) ==
    CASE op = "int" -> DigitsOf(IF arg >= 0 THEN arg ELSE -1 - arg, 8)
      [] op = "uint64_t" -> arg
      [] op = "int64_t" -> IF arg[1] < 128 THEN arg ELSE [i \in 1..8 |-> 255 - arg[i]]
      [] op \in StringOps -> DigitsOf(Len(arg), 8)
      [] op \in { "array", "map" } -> DigitsOf(arg, 8)

\* the bytes the specification expects serialize_<op>(arg) to write
ItemOf(op, arg) ==
    CASE op \in IntegerOps -> HeadOf(MajorOf(op, arg), ArgOf(op, arg))
      [] op \in StringOps -> HeadOf(MajorOf(op, arg), ArgOf(op, arg)) \o arg
      [] op = "bool" -> << IF arg THEN 245 ELSE 244 >>
      [] op = "indefinite_array" -> << 159 >>
      [] op = "indefinite_map" -> << 191 >>
      [] op = "tag" -> << 192 + arg >>
      [] op = "break" -> << 255 >>

\* the size of the item a serialize writes
SizeOf(op, arg) ==
    CASE op = "float_half" -> 3
      [] op = "float" -> 5
      [] op = "double" -> 9
      [] OTHER -> Len(ItemOf(op, arg))

\* the last call was a serialize
Serialized == call.kind = "serialize"

\* the room of the stream before the last call
Room == call.pre.size - call.pre.pos

\* the bytes between the position before the last call and the position now
WrittenBytes == SubSeq(mem, call.pre.pos + 1, stream.pos)

\* the room the code accepts an item of n bytes in: its reserve check wants
\* one byte more than the item takes, which is the subject of C3
EnoughRoom(n) == Room > n

\* the last call left the stream and the buffer as they were
StreamUntouched == stream = call.pre /\ mem = call.mem0

\* the harness has deserialized the item it wrote with the operation of its type
RoundTrip == phase = "deserialized" /\ call.op = item.op

-----------------------------------------------------------------------------
(* The claims *)

\* C1: Minimum-width law.  Every integer-argument item (int, uint64_t,
\* int64_t, array, map) that is written has a head of length 1 / 2 / 3 / 5 / 9
\* for N <= 23 / 0xFF / 0xFFFF / 0xFFFFFFFF / larger, made of the byte
\* major | ai and N in big-endian order, with N = v and major 0x00 for v >= 0
\* and N = -1 - v and major 0x20 for v < 0 (INT_MIN and INT64_MIN included,
\* N + v = -1 without overflow); and it is written when the room is enough.
C1_MinimumWidth ==
    (Serialized /\ call.op \in IntegerOps) =>
        LET N == ArgOf(call.op, call.arg)
        IN  /\ EnoughRoom(MinWidth(N)) => call.ret # 0
            /\ call.ret # 0 =>
                  /\ call.ret = MinWidth(N)
                  /\ stream.pos = call.pre.pos + call.ret
                  /\ WrittenBytes = HeadOf(MajorOf(call.op, call.arg), N)
                  /\ (call.op = "int64_t" /\ call.arg[1] >= 128) =>
                        /\ Add64(N, call.arg) = MinusOne64
                        /\ N[1] < 128

\* C1 witness: INT64_MIN is written as the nine bytes 3B 7F FF .. FF
C1_Witness ==
    /\ Serialized /\ call.op = "int64_t" /\ call.arg = INT64_MIN
    /\ call.ret = 9
    /\ WrittenBytes = << 59, 127, 255, 255, 255, 255, 255, 255, 255 >>

\* C2: every typed serialize is atomic: either the item is written and pos
\* advances by the non-zero count returned, or 0 is returned and neither pos
\* nor any buffer byte has changed.
C2_Atomic ==
    Serialized =>
        \/ call.ret # 0 /\ stream.pos = call.pre.pos + call.ret
        \/ call.ret = 0 /\ StreamUntouched

\* C3: reserve check: a fixed-size serialize or head encode of n bytes
\* succeeds whenever size - pos >= n and fails, pos unchanged, only when
\* size - pos < n.
C3_ReserveCheck ==
    (Serialized /\ call.op \notin StringOps) =>
        LET n == SizeOf(call.op, call.arg)
        IN  IF Room >= n
            THEN call.ret = n /\ stream.pos = call.pre.pos + n
            ELSE call.ret = 0 /\ stream.pos = call.pre.pos

\* C4: buffer-full law: on a stream of capacity 0 every typed serialize
\* returns 0 and pos stays 0, whatever the value and however many calls.
C4_BufferFull ==
    stream.size = 0 =>
        /\ stream.pos = 0
        /\ Serialized => call.ret = 0 /\ call.wr = {} /\ StreamUntouched

\* C4 witness: serialize_byte_string("foo") was refused by a stream of
\* capacity 0
C4_Witness ==
    /\ stream.size = 0 /\ stream.pos = 0
    /\ Serialized /\ call.op = "byte_string" /\ call.arg = << 102, 111, 111 >>
    /\ call.ret = 0

\* C5: for every type, deserialize_T at the offset an item was written to
\* returns the byte count serialize_T returned for it (a string being given
\* a destination of at least len + 1 bytes).
C5_SameCount ==
    (RoundTrip /\ (call.op \in StringOps => call.cap >= Len(item.arg) + 1)) =>
        call.ret = item.ret

\* C6: integer round trip: an int, uint64_t or int64_t v is written when the
\* room is enough, and once written the deserialize of the same type at its
\* offset succeeds and yields exactly v.
C6_IntegerRoundTrip ==
    /\ (Serialized /\ call.op \in { "int", "uint64_t", "int64_t" }
           /\ EnoughRoom(SizeOf(call.op, call.arg))) =>
          call.ret # 0
    /\ (RoundTrip /\ call.op \in { "int", "uint64_t", "int64_t" }) =>
          call.ret # 0 /\ call.out = item.arg

\* C6 witness: INT_MIN read back by deserialize_int
C6_Witness ==
    /\ RoundTrip /\ call.op = "int" /\ item.arg = INT_MIN
    /\ call.ret = 5 /\ call.out = INT_MIN /\ call.out0 # INT_MIN

\* the major types deserialize_<op> accepts
Accepts(op) ==
    CASE op \in { "int", "int64_t" } -> { 0, 32 }
      [] op = "uint64_t" -> { 0 }
      [] op \in { "bool", "float_half", "float", "double" } -> { 224 }
      [] op = "byte_string" -> { 64 }
      [] op = "unicode_string" -> { 96 }
      [] op = "array" -> { 128 }
      [] op = "map" -> { 160 }

\* deserialize_<op> does not accept the initial byte b
Mismatch(op, b) ==
    \/ TypeBits(b) \notin Accepts(op)
    \/ op = "float_half" /\ b # 249
    \/ op = "float" /\ b # 250
    \/ op = "double" /\ b # 251

TypedDeserializes ==
    { "int", "uint64_t", "int64_t", "bool", "float_half", "float", "double",
      "byte_string", "unicode_string", "array", "map" }

\* C7: type-mismatch law: a typed deserialize applied to a byte whose major
\* type it does not accept (a float deserialize: to another major-7 byte)
\* returns 0 and leaves the out value untouched.
C7_TypeMismatch ==
    (call.kind = "deserialize" /\ call.op \in TypedDeserializes
        /\ Mismatch(call.op, call.mem0[call.offset + 1])) =>
        call.ret = 0 /\ call.out = call.out0 /\ call.dstw = {}

\* C7 witness: deserialize_byte_string refused the text string "a", with a
\* destination large enough
C7_Witness ==
    /\ phase = "deserialized" /\ item.op = "unicode_string" /\ item.arg = << 97 >>
    /\ call.op = "byte_string" /\ call.cap >= 2
    /\ call.ret = 0 /\ call.out = call.out0

\* C8: destination bound: a string deserialize with destination capacity
\* dst_cap on a payload of len bytes returns 0 and stores nothing when
\* dst_cap < len + 1, stores exactly the indices 0..len otherwise, and never
\* stores to an index >= dst_cap.
C8_DestinationBound ==
    (RoundTrip /\ call.op \in StringOps) =>
        LET len == Len(item.arg)
        IN  /\ IF call.cap < len + 1
               THEN call.ret = 0 /\ call.dstw = {} /\ call.out = call.out0
               ELSE call.dstw = 0..len
            /\ \A i \in call.dstw : i < call.cap

C10_Cursor ==
    /\ 0 <= stream.pos /\ stream.pos <= stream.size
    /\ Len(mem) = stream.size
    /\ call.kind \in { "serialize", "clear" } => stream.size = call.pre.size
    /\ Serialized => \A i \in call.wr : i < call.pre.size

\* C10 witness: a second item was written, up to the last byte the stream takes
C10_Witness ==
    /\ stream.size = MaxCap /\ stream.pos = stream.size - 1
    /\ Serialized /\ call.ret # 0 /\ call.pre.pos > 0
    /\ call.wr # {}

\* C11: append-only content: a successful serialize changes no byte below the
\* old position and advances the position by the count it returns; clear
\* resets the position and keeps buffer and capacity; hence, after clear calls
\* and successful serialize calls, the bytes [0, pos) are the encodings of the
\* items serialized since the last clear, in call order.
C11_AppendOnly ==
    /\ (Serialized /\ call.ret # 0) =>
          /\ stream.pos = call.pre.pos + call.ret
          /\ SubSeq(mem, 1, call.pre.pos) = SubSeq(call.mem0, 1, call.pre.pos)
          /\ SubSeq(mem, stream.pos + 1, Len(mem))
                = SubSeq(call.mem0, stream.pos + 1, Len(mem))
    /\ call.kind = "clear" =>
          stream = [call.pre EXCEPT !.pos = 0] /\ mem = call.mem0
    /\ log.clean => SubSeq(mem, 1, stream.pos) = log.bytes

\* C11 witness: array(3) and -1 were serialized after a clear, over the bytes
\* of two earlier items: the stream holds 83 20
C11_Witness ==
    /\ log.clean /\ log.bytes = << 131, 32 >>
    /\ stream.pos = 2 /\ SubSeq(mem, 1, 2) = << 131, 32 >>
    /\ Serialized /\ call.op = "int" /\ call.ret = 1
    /\ call.mem0 = << 131, 255, 0 >>

\* the last call was a typed deserialize
Deserialized == call.kind = "deserialize" /\ call.op # "decode_int"

\* C12: a typed deserialize at offset o that returns a count c > 0 reads only
\* the stream bytes [o, o + c), and every deserialize and every at_tag,
\* at_break and at_end call leaves data, capacity and position as they were.
C12_ReadFrame ==
    /\ (Deserialized /\ call.ret > 0) =>
          \A i \in call.rd : call.offset <= i /\ i < call.offset + call.ret
    /\ call.kind \in { "deserialize", "predicate" } => StreamUntouched

\* the initial byte the last read-only call was applied to
ByteAt == call.mem0[call.offset + 1]

\* the argument a head of w follow bytes at the offset of the last call
\* stands for: the follow bytes in big-endian order, zeros above them
FollowArg(w) ==
    [i \in 1..8 |-> IF i <= 8 - w THEN 0 ELSE call.mem0[call.offset + 1 + i - (8 - w)]]

\* the deserializes that decode a head with decode_int
HeadDeserializes ==
    { "int", "uint64_t", "int64_t", "byte_string", "unicode_string", "array", "map" }

\* C13: head decoding: decode_int yields (ai, 1) for ai <= 23 and (the
\* big-endian value of the next 1 / 2 / 4 / 8 bytes, 2 / 3 / 5 / 9) for
\* ai = 24 / 25 / 26 / 27, whatever the follow bytes are and whether or not
\* the width is minimal, all 64 bits kept as they are; for ai in 28..30 it
\* returns 0, and so does every typed deserialize built on it.
C13_HeadDecoding ==
    /\ (call.kind = "deserialize" /\ call.op = "decode_int") =>
          LET ai == InfoBits(ByteAt)
          IN  CASE ai <= 23 -> call.ret = 1 /\ call.out = DigitsOf(ai, 8)
                [] ai = 24 -> call.ret = 2 /\ call.out = FollowArg(1)
                [] ai = 25 -> call.ret = 3 /\ call.out = FollowArg(2)
                [] ai = 26 -> call.ret = 5 /\ call.out = FollowArg(4)
                [] ai = 27 -> call.ret = 9 /\ call.out = FollowArg(8)
                [] ai \in 28..30 -> call.ret = 0
                [] OTHER -> TRUE
    /\ (call.kind = "deserialize" /\ call.op \in HeadDeserializes
           /\ InfoBits(ByteAt) \in 28..30) =>
          call.ret = 0

\* C13 witness: 1B 80 00 00 00 80 00 00 01 decodes to 0x8000000080000001
C13_Witness ==
    /\ call.kind = "deserialize" /\ call.op = "decode_int"
    /\ ByteAt = 27 /\ call.ret = 9
    /\ call.out = << 128, 0, 0, 0, 128, 0, 0, 1 >>

\* the last call was the predicate op on a non-null stream
Asked(op) == call.kind = "predicate" /\ call.op = op /\ ~call.arg

\* the offset of the last call is at the end as the specification defines it
AtEndOf == call.offset >= call.pre.pos - 1

\* C14: loop predicates: on a non-null stream with pos >= 1, at_end(offset)
\* is true iff offset >= pos - 1, and at_break(offset) is true iff
\* at_end(offset) or the byte at offset is 0xFF; on a null stream at_end is
\* true.
C14_LoopPredicates ==
    /\ (Asked("at_end") /\ call.pre.pos >= 1) =>
          (call.ret = 1 <=> AtEndOf)
    /\ (Asked("at_break") /\ call.pre.pos >= 1) =>
          (call.ret = 1 <=> (AtEndOf \/ ByteAt = 255))
    /\ (call.kind = "predicate" /\ call.op = "at_end" /\ call.arg) => call.ret = 1
    /\ call.kind = "predicate" => call.ret \in { 0, 1 }

\* C14 witness: at_break is true at a break byte seven bytes before the end
C14_Witness ==
    /\ Asked("at_break") /\ call.pre.pos = MaxRaw /\ call.offset = 0
    /\ ByteAt = 255 /\ call.ret = 1 /\ ~AtEndOf

\* at_end(offset) as the code computes it for the last call
AtEndHolds == call.arg \/ (call.pre.pos >= 1 /\ AtEndOf)

\* C15: tags: for every tag number t <= 23 and stream with room,
\* write_tag(t) writes exactly the single byte 0xC0 | t at the old position
\* and returns 1, after which at_tag at that offset is true; at_tag(offset)
\* is true iff the byte at offset has major type 6 or at_end(offset) holds;
\* write_tag(2) then the byte string "1" gives C2 41 31 and the string
\* deserializes at offset 1.
C15_Tags ==
    /\ (Serialized /\ call.op = "tag" /\ call.arg <= 23 /\ EnoughRoom(1)) =>
          /\ call.ret = 1
          /\ stream = [call.pre EXCEPT !.pos = call.pre.pos + 1]
          /\ mem = [call.mem0 EXCEPT ![call.pre.pos + 1] = 192 + call.arg]
    /\ (Asked("at_tag") /\ item.op = "tag" /\ item.ret = 1
          /\ call.offset = item.offset) => call.ret = 1
    /\ (call.kind = "predicate" /\ call.op = "at_tag"
          /\ (AtEndHolds \/ call.offset < Len(call.mem0))) =>
          (call.ret = 1 <=> (AtEndHolds \/ ByteAt \div 32 = 6))
    /\ (phase = "followed" /\ item.arg = 2 /\ item.offset = 0
          /\ call.arg = << 49 >>) =>
          /\ call.ret = 2
          /\ SubSeq(mem, 1, stream.pos) = << 194, 65, 49 >>
    /\ (phase = "inspected" /\ call.kind = "deserialize"
          /\ call.op = "byte_string" /\ call.offset = 1 /\ call.cap >= 2
          /\ item.op = "tag" /\ SubSeq(mem, 1, stream.pos) = << 194, 65, 49 >>) =>
          /\ call.ret = 2
          /\ SubSeq(call.out, 1, 2) = << 49, 0 >>

\* C15 witness: tag 2 and the byte string "1" were written, at_tag at the
\* tag's offset, which is not the end, is true
C15_Witness ==
    /\ Asked("at_tag") /\ item.op = "tag" /\ item.arg = 2 /\ item.ret = 1
    /\ call.offset = item.offset /\ call.offset = 0 /\ ~AtEndHolds
    /\ SubSeq(mem, 1, stream.pos) = << 194, 65, 49 >> /\ call.ret = 1

\* C16: boolean: serialize_bool writes the single byte 0xF5 for true and
\* 0xF4 for false; deserialize_bool returns 0 when the byte's major type is
\* not 7, and for every byte of major type 7 (0xE0..0xFF) it returns 1 with
\* the out value true iff the byte equals 0xF5.
C16_Boolean ==
    /\ (Serialized /\ call.op = "bool") =>
          /\ EnoughRoom(1) => call.ret = 1
          /\ call.ret # 0 =>
                /\ call.ret = 1
                /\ stream.pos = call.pre.pos + 1
                /\ WrittenBytes = << IF call.arg THEN 245 ELSE 244 >>
    /\ (call.kind = "deserialize" /\ call.op = "bool") =>
          IF ByteAt \div 32 # 7 THEN call.ret = 0
          ELSE call.ret = 1 /\ call.out = (ByteAt = 245)

\* C16 witness: the head of a double deserializes as the bool false
C16_Witness ==
    /\ call.kind = "deserialize" /\ call.op = "bool" /\ ByteAt = 251
    /\ call.out0 = TRUE /\ call.ret = 1 /\ call.out = FALSE

\* the walker has been entered
Entered == walk.state # "idle"

\* the byte at which the last returned call of the walker began
LastByte == At(WalkMem, walk.last.offset)

\* the length of a head with additional information ai: 1, 2, 3, 5 or 9
HeadLen(ai) ==
    IF ai <= 23 THEN 1 ELSE IF ai = 24 THEN 2 ELSE IF ai = 25 THEN 3
    ELSE IF ai = 26 THEN 5 ELSE IF ai = 27 THEN 9 ELSE -1

\* C17: walker integers: decode_at applied to an item of major type 0 or 1
\* with a valid head decodes it as a signed integer and returns the head
\* length (1, 2, 3, 5 or 9), never 0; stream_decode over a stream of
\* serialized negative integers runs to the end without reporting a failure.
C17_WalkerIntegers ==
    /\ (Entered /\ walk.last.type \in { CBOR_UINT, CBOR_NEGINT }
          /\ LastByte % 32 <= 27) =>
          walk.last.count = HeadLen(LastByte % 32)
    /\ (Entered /\ item.op = "int"
          /\ \A k \in 1..Len(item.arg) : item.arg[k] < 0) =>
          walk.state # "failed"

\* the part of C17 about major type 0
WalkerUnsigned ==
    (Entered /\ walk.last.type = CBOR_UINT /\ LastByte % 32 <= 27) =>
        walk.last.count = HeadLen(LastByte % 32)

\* the argument of the head of w bytes at offset o, or big when it is 2^24 or
\* more
ArgWithin(d, o, w, big) ==
    IF w = 1 THEN At(d, o) % 32
    ELSE IF w = 2 THEN At(d, o + 1)
    ELSE IF w = 3 THEN At(d, o + 1) * 256 + At(d, o + 2)
    ELSE IF \E i \in 1..(w - 4) : At(d, o + i) # 0 THEN big
    ELSE At(d, o + w - 3) * 65536 + At(d, o + w - 2) * 256 + At(d, o + w - 1)

RECURSIVE ItemLen(_, _, _), ItemsLen(_, _, _, _), UntilBreak(_, _, _, _)
\* the encoded length of the well-formed item at offset o that ends before
\* end and is made of what the walker decodes (unsigned integers, strings,
\* booleans, floats, arrays and maps of these), or -1 when there is none
ItemLen(d, o, end) ==
    IF o >= end THEN -1
    ELSE
    LET b == At(d, o)
        major == b \div 32
        w == HeadLen(b % 32)
        fits == w > 0 /\ o + w <= end
        n == ArgWithin(d, o, w, end + 1)
    IN  IF major = 0 THEN (IF fits THEN w ELSE -1)
        ELSE IF major \in { 2, 3 } THEN
            (IF fits /\ o + w + n <= end THEN w + n ELSE -1)
        ELSE IF major \in { 4, 5 } THEN
            IF b % 32 = 31 THEN
                LET r == UntilBreak(d, o + 1, end, major - 3)
                IN  IF r < 0 THEN -1 ELSE 1 + r + 1
            ELSE IF ~fits \/ n > end THEN -1
            ELSE LET r == ItemsLen(d, o + w, end, n * (major - 3))
                 IN  IF r < 0 THEN -1 ELSE w + r
        ELSE IF b \in { CBOR_FALSE, CBOR_TRUE } THEN 1
        ELSE IF b = CBOR_FLOAT16 THEN (IF o + 3 <= end THEN 3 ELSE -1)
        ELSE IF b = CBOR_FLOAT32 THEN (IF o + 5 <= end THEN 5 ELSE -1)
        ELSE IF b = CBOR_FLOAT64 THEN (IF o + 9 <= end THEN 9 ELSE -1)
        ELSE -1

\* the length of k well-formed items in a row from offset o, or -1
ItemsLen(d, o, end, k) ==
    IF k = 0 THEN 0
    ELSE LET a == ItemLen(d, o, end)
         IN  IF a < 0 THEN -1
             ELSE LET r == ItemsLen(d, o + a, end, k - 1)
                  IN  IF r < 0 THEN -1 ELSE a + r

\* the length of the well-formed groups of k items from offset o up to a
\* break byte, the break not counted, or -1
UntilBreak(d, o, end, k) ==
    IF o >= end THEN -1
    ELSE IF At(d, o) = CBOR_BREAK THEN 0
    ELSE LET a == ItemsLen(d, o, end, k)
         IN  IF a < 0 THEN -1
             ELSE LET r == UntilBreak(d, o + a, end, k)
                  IN  IF r < 0 THEN -1 ELSE a + r

RECURSIVE ItemStarts(_, _, _)
\* the starts of the top-level items of a stream of well-formed items from
\* offset o on, or { -1 } when the stream is not one
ItemStarts(d, o, end) ==
    IF o >= end THEN {}
    ELSE LET a == ItemLen(d, o, end)
         IN  IF a < 0 THEN { -1 }
             ELSE LET r == ItemStarts(d, o + a, end)
                  IN  IF -1 \in r THEN { -1 } ELSE { o } \cup r

\* C18: walker byte count: for every well-formed array or map at offset o
\* whose elements the walker supports, decode_at returns exactly the encoded
\* length of that container (the break byte counted only for an indefinite
\* one), whatever byte follows and whether or not the container ends the
\* stream; the offsets stream_decode visits are exactly the starts of the
\* top-level items, and o + the returned count never exceeds the position.
C18_WalkerByteCount ==
    /\ (Entered /\ walk.last.type \in { CBOR_ARRAY, CBOR_MAP }
          /\ ItemLen(mem, walk.last.offset, stream.pos) > 0) =>
          /\ walk.last.count = ItemLen(mem, walk.last.offset, stream.pos)
          /\ walk.last.offset + walk.last.count <= stream.pos
    /\ (walk.state = "done" /\ -1 \notin ItemStarts(mem, 0, stream.pos)) =>
          walk.visited = ItemStarts(mem, 0, stream.pos)

\* C19: walker failure propagation: whenever a nested decode_at call on an
\* element, key or value of an array or map returns 0, the failure is
\* propagated upward, stream_decode reports it and aborts; stream_decode
\* never goes on or runs to the end of the stream as if decoding had
\* succeeded when some element failed to decode.
C19_FailurePropagation ==
    (Entered /\ walk.inner_failed) =>
        ~(Walking("top") \/ walk.state = "done")

\* the walk has ended
Stopped == walk.state \in { "done", "failed", "fault" }

\* a top-level step returns 0, and the walk stops, or increases the offset
TopProgress ==
    StreamDecodeReturned =>
        \/ walk.rv = 0 /\ walk'.state = "failed"
        \/ walk'.state = "run" /\ walk'.offset > walk.offset

\* an iteration of an array or map loop consumes at least one byte or is the
\* last one
LoopProgress ==
    (ElementReturned /\ walk'.pc = "loop") =>
        LET f == walk'.stack[Len(walk'.stack)]
        IN  f.stopped \/ f.offset > f.from

\* a nested call begins behind the head of its container
Descends ==
    (DecodeAt /\ walk'.pc = "loop") =>
        LET f == walk'.stack[Len(walk'.stack)]
        IN  f.offset > f.start \/ ~LoopTest(f)

\* C20: walker termination: for every stream content and every position <=
\* capacity stream_decode terminates; each top-level step returns 0 (and
\* stream_decode reports and stops) or strictly increases the offset, and
\* every array or map loop inside decode_at consumes at least one byte per
\* iteration or stops.
C20_WalkerTermination ==
    /\ [][TopProgress /\ LoopProgress /\ Descends]_vars
    /\ (walk.state = "run") ~> Stopped

\* C20 witness: the walk of 9F 00 FF has ended after one loop iteration
C20_Witness ==
    /\ walk.state = "done" /\ mem = << 159, 0, 255 >> /\ stream.pos = 3
    /\ walk.last = [offset |-> 0, count |-> 3, depth |-> 0, type |-> CBOR_ARRAY]
    /\ walk.visited = { 0 } /\ walk.offset = 3

\* C21: epoch datetime (tag 1): serialize_date_time_epoch(v) returns 0 and
\* leaves the stream unchanged for every v < 0; for v >= 0 it either writes
\* the tag byte 0xC1 followed by the minimum-width major-0 head of v and
\* returns 1 + head length, or (when that does not fit) writes nothing and
\* returns 0; deserialize_date_time_epoch at that offset then yields v and
\* the same count.
C21_EpochDateTime ==
    /\ (Serialized /\ call.op = "date_time_epoch") =>
          IF call.arg < 0 THEN call.ret = 0 /\ StreamUntouched
          ELSE \/ call.ret = 0 /\ StreamUntouched
               \/ /\ call.ret = 1 + MinWidth(U64(call.arg))
                  /\ stream.pos = call.pre.pos + call.ret
                  /\ WrittenBytes = << 193 >> \o HeadOf(0, U64(call.arg))
    /\ (RoundTrip /\ call.op = "date_time_epoch") =>
          call.ret = item.ret /\ call.out = item.arg

\* the part of C21 the code keeps: with room for the tag and the head
EpochWithRoom ==
    /\ (Serialized /\ call.op = "date_time_epoch" /\ call.arg >= 0
          /\ EnoughRoom(1 + MinWidth(U64(call.arg)))) =>
          /\ call.ret = 1 + MinWidth(U64(call.arg))
          /\ stream.pos = call.pre.pos + call.ret
          /\ WrittenBytes = << 193 >> \o HeadOf(0, U64(call.arg))
    /\ (Serialized /\ call.op = "date_time_epoch" /\ call.arg < 0) =>
          call.ret = 0 /\ StreamUntouched
    /\ (RoundTrip /\ call.op = "date_time_epoch"
          /\ item.ret = 1 + MinWidth(U64(item.arg))) =>
          call.ret = item.ret /\ call.out = item.arg

\* the reading loop of a container test has been entered
InLoop == walk.state \in { "loop", "exited" }

\* the items written are n ints behind an indefinite array head, or n pairs
\* of an int and a byte string behind an indefinite map head
IndefiniteItems ==
    /\ item.op \in IndefiniteOps
    /\ item.op = "indefinite_map" => Len(item.items) % 2 = 0
    /\ \A k \in 1..Len(item.items) :
          item.items[k].op = IF item.op = "indefinite_map" /\ k % 2 = 0
                             THEN "byte_string" ELSE "int"

\* C22: indefinite containers: for every n >= 0, after
\* serialize_indefinite_array (serialize_indefinite_map), n int elements (n
\* int / byte string pairs) and write_break as the last item of the stream,
\* the loop 'offset = deserialize_indefinite_*(0); while (!at_break(offset))
\* offset += deserialize element' executes exactly n iterations, every
\* element deserialize returns non-zero, and at_end(offset) is true when the
\* loop exits.
C22_IndefiniteContainers ==
    (InLoop /\ IndefiniteItems) =>
        /\ walk.head.ret = 1
        /\ walk.count <= Len(item.items)
        /\ \A k \in 1..Len(walk.got) : walk.got[k].ret # 0
        /\ phase # "aborted"
        /\ phase = "exited" =>
              /\ walk.count = Len(item.items)
              /\ call.op = "at_end" /\ call.offset = walk.offset /\ call.ret = 1

\* C22 witness: the loop over BF 00 41 61 20 41 61 FF has made two iterations
C22_Witness ==
    /\ phase = "exited" /\ item.op = "indefinite_map" /\ IndefiniteItems
    /\ SubSeq(mem, 1, stream.pos) = << 191, 0, 65, 97, 32, 65, 97, 255 >>
    /\ walk.count = 4 /\ walk.offset = 7 /\ call.ret = 1

\* C23: sequential decode: after serializing a definite array head (or map
\* head) with count n followed by any sequence of ints and byte strings into
\* a cleared stream with enough room, deserialize_array (deserialize_map) at
\* offset 0 yields n and the head length, and calling the matching typed
\* deserialize at the running sum of returned counts recovers every item in
\* the order written, with the final running sum equal to position.
C23_SequentialDecode ==
    (InLoop /\ item.op \in { "array", "map" }) =>
        /\ walk.head.ret = MinWidth(U64(item.arg))
        /\ walk.head.out = U64(item.arg)
        /\ \A k \in 1..Len(walk.got) :
              /\ walk.got[k].op = item.items[k].op
              /\ walk.got[k].ret = item.items[k].ret
              /\ IF walk.got[k].op = "int"
                 THEN walk.got[k].out = item.items[k].arg
                 ELSE SubSeq(walk.got[k].out, 1, Len(item.items[k].arg) + 1)
                         = item.items[k].arg \o << 0 >>
        /\ phase = "exited" =>
              walk.count = Len(item.items) /\ walk.offset = stream.pos

\* C23 witness: 98 18 00 41 61 20 is read back item by item
C23_Witness ==
    /\ phase = "exited" /\ item.op = "array" /\ item.arg = 24
    /\ SubSeq(mem, 1, stream.pos) = << 152, 24, 0, 65, 97, 32 >>
    /\ walk.head = [ret |-> 2, out |-> U64(24)]
    /\ Len(walk.got) = 3 /\ walk.got[3].out = -1 /\ walk.offset = 6

\* the last call was a serialize_float_half with room for its three bytes
HalfWritten == Serialized /\ call.op = "float_half" /\ EnoughRoom(3)

\* the three bytes of the half h
HalfBytes(h) == << CBOR_FLOAT16, h \div 256, h % 256 >>

\* the sign bit of the float pattern f
FloatSign(f) == f[1] \div 128

C25_HalfFloatRounding ==
    (HalfWritten /\ FloatExp(call.arg) \in 113..142) =>
        LET m == FloatMant(call.arg)
            dropped == m % 8192
            increment == IF \/ dropped > 4096
                            \/ dropped = 4096 /\ Shr(m, 13) % 2 = 1
                         THEN 1 ELSE 0
        IN  WrittenBytes =
                HalfBytes(FloatSign(call.arg) * 32768
                          + (FloatExp(call.arg) - 112) * 1024
                          + Shr(m, 13) + increment)

\* the part of C25 the code keeps: the increment is bit 12 of m, so a tie is
\* rounded away from zero whatever bit 13 is
HalfRoundsTiesAway ==
    (HalfWritten /\ FloatExp(call.arg) \in 113..142) =>
        LET m == FloatMant(call.arg)
        IN  WrittenBytes =
                HalfBytes(FloatSign(call.arg) * 32768
                          + (FloatExp(call.arg) - 112) * 1024
                          + Shr(m, 13) + (Shr(m, 12) % 2))

\* C26: after destroy: data = null, capacity = 0, position = 0, and every
\* subsequent typed serialize, write_tag or write_break returns 0 without
\* writing and without changing the stream, until init is called again.
C26_AfterDestroy ==
    /\ call.kind = "destroy" => phase = "destroyed"
    /\ phase = "destroyed" =>
          /\ stream = [data |-> NULL, size |-> 0, pos |-> 0]
          /\ Serialized => call.ret = 0 /\ call.wr = {} /\ StreamUntouched

\* C26 witness: a destroyed stream has refused a tag
C26_Witness ==
    /\ phase = "destroyed" /\ stream.data = NULL
    /\ Serialized /\ call.op = "tag" /\ call.ret = 0
    /\ call.pre = [data |-> NULL, size |-> 0, pos |-> 0]

\* C27: read bounds: for every stream content and every offset < position,
\* no typed deserialize and no walker step reads a buffer index >= position;
\* an item whose head or payload would extend past position (e.g. a 0x18
\* head in the last written byte, or a string whose declared length exceeds
\* the remaining bytes) is rejected with 0.
C27_ReadBounds ==
    (Deserialized /\ call.offset < call.pre.pos) =>
        /\ \A i \in call.rd : i < call.pre.pos
        /\ call.ret # 0 => call.offset + call.ret <= call.pre.pos

\* C28: empty stream: on a non-null stream with position = 0, at_end(offset)
\* is true for every offset >= 0, and therefore at_break and at_tag are true
\* as well, so a 'while (!at_break)' loop over an empty stream performs no
\* iteration (position - 1 does not wrap).
C28_EmptyStream ==
    (call.kind = "predicate" /\ ~call.arg /\ call.pre.pos = 0) => call.ret = 1

\* C29: out value on failure: whenever any typed deserialize (int, uint64,
\* int64, array, map, bool, floats, strings) returns 0 for any reason,
\* including a matching major type with an invalid or indefinite additional
\* information 28..31, the caller's out value is exactly what it was before
\* the call.
C29_OutOnFailure ==
    (Deserialized /\ call.ret = 0) => call.out = call.out0 /\ call.dstw = {}

\* the part of C29 the code keeps: the deserializers that do not go through
\* decode_int with a destination of their own
OutKeptOnFailure ==
    (Deserialized /\ call.ret = 0
        /\ call.op \notin { "int", "uint64_t", "int64_t", "array", "map" }) =>
        call.out = call.out0 /\ call.dstw = {}

\* the 64-bit argument W is at most INT_MAX
FitsInt(W) == SubSeq(W, 1, 4) = << 0, 0, 0, 0 >> /\ W[5] < 128

\* the last call decoded an integer item that lies inside the buffer
IntegerRead(op) ==
    /\ Deserialized /\ call.op = op /\ call.ret # 0
    /\ call.offset + call.ret <= Len(mem)

\* C30: no wrapped results: whenever deserialize_int or deserialize_int64_t
\* returns non-zero, the out value equals the mathematical value of the item
\* (arg for major type 0, -1 - arg for major type 1); an item whose value
\* lies outside the destination range (arg > INT_MAX for int, arg >= 2^63
\* for int64) is never reported as success with a truncated or sign-flipped
\* value.
C30_NoWrappedResults ==
    LET arg == decode_int(mem, call.offset).val
        negative == CBOR_TYPE(mem, call.offset) = CBOR_NEGINT
    IN  /\ IntegerRead("int") =>
              /\ FitsInt(arg)
              /\ call.out = IF negative THEN -1 - IntOfU64(arg) ELSE IntOfU64(arg)
        /\ IntegerRead("int64_t") =>
              /\ ~IsNeg64(arg)
              /\ call.out = IF negative THEN Sub64(MinusOne64, arg) ELSE arg

\* the part of C30 the code keeps: an item inside the destination range is
\* read as its mathematical value
InRangeExact ==
    LET arg == decode_int(mem, call.offset).val
        negative == CBOR_TYPE(mem, call.offset) = CBOR_NEGINT
    IN  /\ (IntegerRead("int") /\ FitsInt(arg)) =>
              call.out = IF negative THEN -1 - IntOfU64(arg) ELSE IntOfU64(arg)
        /\ (IntegerRead("int64_t") /\ ~IsNeg64(arg)) =>
              call.out = IF negative THEN Sub64(MinusOne64, arg) ELSE arg

=============================================================================
